---- MODULE Spec2Model ----
(***************************************************************************)
(* A model of the VReplication workflow server (go/vt/vtctl/workflow/      *)
(* server.go): the create verbs (moveTablesCreate, ReshardCreate), the     *)
(* traffic switch verbs (WorkflowSwitchTraffic with switchReads and        *)
(* switchWrites), WorkflowDelete, MoveTablesComplete and                   *)
(* WorkflowMirrorTraffic, acting on one workflow and its reverse twin;     *)
(* the background jobs of optimizeCopyStateTable; buildTrafficSwitcher as  *)
(* a function of the streams of the targets; and pruneBackups of vtbackup. *)
(*                                                                         *)
(* The topology store and the shard agents are held in the record `topo`;  *)
(* the verbs are processes whose position is `call[p].pc`.  The switcher   *)
(* primitives the server calls (stopSourceWrites, createJournals, ...) are *)
(* not part of server.go; they are modelled from the specification and     *)
(* marked as such in the model map.                                        *)
(***************************************************************************)
EXTENDS Integers, Sequences, FiniteSets, TLC

(***************************************************************************)
(* Bounds of the model.                                                    *)
(***************************************************************************)
\* The number of calls of optimizeCopyStateTable in a behaviour.
MaxCalls == 5
\* The backups in the storage and their age (in units of time).
MaxBackups == 4
MaxAge == 3
\* The target shards of a workflow whose traffic switcher is built.
MaxTargets == 2
NumShards == 2
MaxLag == 31

(***************************************************************************)
(* Program constants.                                                      *)
(***************************************************************************)
DefaultTimeout == 30000
lockTablesCycles == 2
primaryTabletSuffix == ""
replicaTabletSuffix == "@replica"
rdonlyTabletSuffix == "@rdonly"
globalTableQualifier == ""
Frozen == "FROZEN"
cannotSwitchError == "workflow has errors"
cannotSwitchCopyIncomplete == "copy is still in progress"
cannotSwitchHighLag == "replication lag %ds is higher than allowed lag %ds"
cannotSwitchFailedTabletRefresh == "could not refresh all of the tablets involved in the operation:\n%s"
cannotSwitchFrozen == "workflow is frozen"

tabletTypeSuffixes == {primaryTabletSuffix, replicaTabletSuffix, rdonlyTabletSuffix}

(***************************************************************************)
(* The universe: one workflow "wf" moving Tables from the S side to the T  *)
(* side, and its reverse twin.                                             *)
(***************************************************************************)
Procs == {"p1"}
Sides == {"S", "T"}
Shards == 1..NumShards
Cells == {"c1", "c2"}
TableList == <<"t1", "t2">>
Tables == {TableList[i] : i \in 1..Len(TableList)}
\* A table of the keyspaces that is not among the tables of the workflow.
OtherTables == {"t0"}
Kinds == {"standard", "partial", "multitenant", "reshard", "migrate", "lookup"}
TabletTypes == {"PRIMARY", "REPLICA", "RDONLY"}
RoTypes == {"REPLICA", "RDONLY"}
Unset == -1
NoStream == [state |-> "none", message |-> ""]
LagValues == {1, 2, DefaultTimeout \div 1000, MaxLag}

Other(side) == IF side = "S" THEN "T" ELSE "S"

Suffix(tt) ==
  CASE tt = "PRIMARY" -> primaryTabletSuffix
    [] tt = "REPLICA" -> replicaTabletSuffix
    [] tt = "RDONLY" -> rdonlyTabletSuffix

\* kind, topo, nameLock, ksLock and call are the state of the workflow verbs;
\* sem and jobs are the semaphore of the server and its background jobs;
\* vtbackup is the state of the backup job (part_002); build holds a set
\* of streams and the traffic switcher built from them.
VARIABLES kind, topo, nameLock, ksLock, call, sem, jobs, vtbackup, build, reads, probe
vars == <<kind, topo, nameLock, ksLock, call, sem, jobs, vtbackup, build, reads, probe>>

\* What no workflow verb changes.
fixed == <<kind, sem, jobs, vtbackup, build, reads, probe>>

\* Server.sem is nil in a server that NewServer built (lines 145-157).
NoSem == [nil |-> TRUE, size |-> 0, cur |-> 0]
NoJobs == [optimize |-> 0, reset |-> 0, ended |-> 0, deferred |-> 0]

(***************************************************************************)
(* Workflow names.  A name is a sequence of tokens so that the "_reverse"  *)
(* suffix can be tested and stripped as the code does.                     *)
(***************************************************************************)
WfName == <<"wf">>
HasReverseSuffix(n) == Len(n) > 0 /\ n[Len(n)] = "_reverse"

ReverseWorkflowName(n) ==
  IF HasReverseSuffix(n) THEN SubSeq(n, 1, Len(n) - 1) ELSE Append(n, "_reverse")

WfNames == {WfName, ReverseWorkflowName(WfName)}

\* The side whose shards hold the streams of workflow n (its target).
TargetSide(n) == IF HasReverseSuffix(n) THEN "S" ELSE "T"
SourceSide(n) == Other(TargetSide(n))

\* Keyspace names of the two sides: a Reshard stays within one keyspace.
KsName(side) == IF side = "S" \/ kind = "reshard" THEN "ks1" ELSE "ks2"
Keyspaces == {"ks1", "ks2"}

\* Shard names: within one keyspace source and target shards are distinct
\* key ranges; across keyspaces the shard names coincide.
ShardName(side, i) == IF kind = "reshard" THEN <<side, i>> ELSE <<"x", i>>
ShardNames(side) == {ShardName(side, i) : i \in Shards}

RuleKeys == (Keyspaces \cup {globalTableQualifier}) \X (Tables \cup OtherTables) \X tabletTypeSuffixes

(***************************************************************************)
(* The topology store and the shard agents' sidecar tables.                *)
(*   streams    _vt.vreplication rows of each workflow on its target shards *)
(*   rules      table routing rules (key -> keyspace of the target table)  *)
(*   srvRules   the routing rules of each cell's served vschema            *)
(*   shardRules shard routing rules, ksRules keyspace routing rules        *)
(*   mirror     mirror rule percentage per tablet type, or NoMirrorRule    *)
(*   denied     primary denied-table entries (TABLES) or disabled primary  *)
(*              query service (SHARDS) of the shards of a side             *)
(*   serving    IsPrimaryServing of the shards of a side                   *)
(*   partition  SrvKeyspace partitions of the read-only tablet types       *)
(*   journals   _vt.resharding_journal rows (their ids) per shard          *)
(*   tables     whether the workflow's tables (their data) exist on a side *)
(*   vschema    the vschema of the target keyspace: whether it is sharded  *)
(*              and the tables it defines                                  *)
(***************************************************************************)
NoRules == [k \in RuleKeys |-> "none"]
NoMirrorRule == -1
NoShardRules == [k \in Keyspaces \X Shards |-> "none"]
NoKsRules == [k \in Keyspaces \X tabletTypeSuffixes |-> "none"]

\* The topology before the workflow is created.
EmptyTopo(k) ==
  [ streams    |-> [n \in WfNames |-> [i \in Shards |-> NoStream]],
    rules      |-> NoRules,
    srvRules   |-> [c \in Cells |-> NoRules],
    shardRules |-> NoShardRules,
    ksRules    |-> NoKsRules,
    mirror     |-> [tt \in TabletTypes |-> NoMirrorRule],
    denied     |-> [sd \in Sides |-> [i \in Shards |-> FALSE]],
    serving    |-> [sd \in Sides |-> sd = "S" \/ k # "reshard"],
    partition  |-> [c \in Cells |-> [tt \in RoTypes |->
                     [refs |-> "S", ctl |-> [sd \in Sides |-> "none"]]]],
    journals   |-> [sd \in Sides |-> [i \in Shards |-> <<>>]],
    tables     |-> [sd \in Sides |-> sd = "S"],
    vschema    |-> [sharded |-> FALSE, tables |-> {}] ]

\* A variant of WorkflowExists that finds no workflow.
WorkflowNeverExists(t, n) == FALSE

(***************************************************************************)
(* BuildTargets and buildTrafficSwitcher.                                  *)
(***************************************************************************)
WorkflowExists(t, n) == \E i \in Shards : t.streams[n][i].state # "none"

\* BuildTargets: the workflow is frozen when a stream carries FROZEN.
TargetsFrozen(t, n) == \E i \in Shards : t.streams[n][i].message = Frozen

\* HashStreams: the migration id of a target keyspace and the streams of its
\* target shards.  Stream rows that are deleted and created again get fresh
\* ids, so the id of the recreated workflow differs from every id journaled
\* before; the model keeps one id per workflow and forgets the journal rows
\* of the deleted streams instead (see deleteReverseVReplication).
HashStreams(targetKeyspace, targets) == <<targetKeyspace, targets>>

\* BuildTargets: the target shards of the workflow.
BuildTargets(t, n) == ShardNames(TargetSide(n))

WorkflowTypeOf(k) ==
  CASE k \in {"standard", "partial", "multitenant"} -> "MoveTables"
    [] k = "reshard" -> "Reshard"
    [] k = "migrate" -> "Migrate"
    [] k = "lookup" -> "CreateLookupIndex"

\* A variant of the choice below that takes a migration within a keyspace
\* for a table migration when no source shard is a target shard.
MigrationTypeOfOverlapFree(sourceKeyspace, targetKeyspace, externalCluster, sourceShards, targetShards) ==
  IF sourceKeyspace # targetKeyspace \/ externalCluster
    THEN "TABLES"
    ELSE IF sourceShards \cap targetShards = {} THEN "TABLES" ELSE "SHARDS"

\* The migration type chosen at the end of buildTrafficSwitcher.
MigrationTypeOf(sourceKeyspace, targetKeyspace, externalCluster, sourceShards, targetShards) ==
  IF sourceKeyspace # targetKeyspace \/ externalCluster
    THEN "TABLES"
    ELSE IF sourceShards \cap targetShards # {} THEN "TABLES" ELSE "SHARDS"

buildTrafficSwitcher(t, n) ==
  [ workflow        |-> n,
    reverseWorkflow |-> ReverseWorkflowName(n),
    id              |-> HashStreams(KsName(TargetSide(n)), BuildTargets(t, n)),
    src             |-> SourceSide(n),
    tgt             |-> TargetSide(n),
    sourceKeyspace  |-> KsName(SourceSide(n)),
    targetKeyspace  |-> KsName(TargetSide(n)),
    frozen          |-> TargetsFrozen(t, n),
    workflowType    |-> WorkflowTypeOf(kind),
    migrationType   |-> MigrationTypeOf(KsName(SourceSide(n)), KsName(TargetSide(n)),
                          kind = "migrate", ShardNames(SourceSide(n)), ShardNames(TargetSide(n))),
    isPartialMigration |-> kind = "partial",
    isMultiTenant   |-> kind = "multitenant" ]

(***************************************************************************)
(* getWorkflowState and the functions it reads the traffic state with.     *)
(***************************************************************************)
\* GetCellsWithTableReadsSwitched: the cells whose served routing rule of
\* sourceKeyspace.table@type has a target outside the source keyspace.
GetCellsWithTableReadsSwitched(t, sourceKeyspace, table, tabletType) ==
  {c \in Cells : LET to == t.srvRules[c][<<sourceKeyspace, table, Suffix(tabletType)>>]
                 IN  to # "none" /\ to # sourceKeyspace}

\* GetCellsWithShardReadsSwitched for a shard of side sd.
GetCellsWithShardReadsSwitched(t, sd, tabletType) ==
  {c \in Cells : LET part == t.partition[c][tabletType]
                     found == part.refs = sd
                     noControls == \A x \in Sides : part.ctl[x] = "none"
                     served == part.ctl[sd] = "enabled"
                 IN  ~(found /\ (served \/ noControls))}

\* updateKeyspaceRoutingState: a tablet type is switched in every cell when
\* the keyspace rule of the source keyspace names the target keyspace.
KeyspaceSwitched(t, sourceKeyspace, targetKeyspace, sfx) ==
  t.ksRules[<<sourceKeyspace, sfx>>] = targetKeyspace

EmptyState ==
  [ Workflow |-> <<>>, SourceKeyspace |-> "", TargetKeyspace |-> "",
    IsPartialMigration |-> FALSE, IsReverse |-> FALSE, WorkflowType |-> "",
    WritesSwitched |-> FALSE,
    ReplicaCellsSwitched |-> {}, ReplicaCellsNotSwitched |-> {},
    RdonlyCellsSwitched |-> {}, RdonlyCellsNotSwitched |-> {},
    ShardsAlreadySwitched |-> {}, ShardsNotYetSwitched |-> {} ]

\* WritesSwitched of a table-routed workflow: the primary rule of some table
\* exists and does not point at its own key.
TableWritesSwitched(t, sourceKeyspace) ==
  \E table \in Tables :
    LET rr == t.rules[<<sourceKeyspace, table, primaryTabletSuffix>>]
    IN  rr # "none" /\ rr # sourceKeyspace

getWorkflowState(t, n) ==
  LET ts == buildTrafficSwitcher(t, n)
      isReverse == HasReverseSuffix(n)
      \* the keyspaces in the orientation of the user's workflow
      sourceKeyspace == IF isReverse THEN ts.targetKeyspace ELSE ts.sourceKeyspace
      targetKeyspace == IF isReverse THEN ts.sourceKeyspace ELSE ts.targetKeyspace
      shardSide == IF isReverse THEN ts.tgt ELSE ts.src
      base == [EmptyState EXCEPT !.Workflow = n,
                                 !.SourceKeyspace = ts.sourceKeyspace,
                                 !.TargetKeyspace = ts.targetKeyspace,
                                 !.IsPartialMigration = ts.isPartialMigration]
      withType(s) == IF ts.workflowType = "Migrate"
                       THEN [s EXCEPT !.WorkflowType = "Migrate"] ELSE s
      allCells(sw) == IF sw THEN Cells ELSE {}
  IN
  IF ts.workflowType = "CreateLookupIndex" THEN base
  ELSE IF ts.migrationType = "TABLES" THEN
    withType(
      IF ts.isMultiTenant THEN
        [base EXCEPT !.IsReverse = isReverse, !.WorkflowType = "MoveTables",
           !.WritesSwitched = KeyspaceSwitched(t, sourceKeyspace, targetKeyspace, primaryTabletSuffix),
           !.ReplicaCellsSwitched = allCells(KeyspaceSwitched(t, sourceKeyspace, targetKeyspace, replicaTabletSuffix)),
           !.ReplicaCellsNotSwitched = allCells(~KeyspaceSwitched(t, sourceKeyspace, targetKeyspace, replicaTabletSuffix)),
           !.RdonlyCellsSwitched = allCells(KeyspaceSwitched(t, sourceKeyspace, targetKeyspace, rdonlyTabletSuffix)),
           !.RdonlyCellsNotSwitched = allCells(~KeyspaceSwitched(t, sourceKeyspace, targetKeyspace, rdonlyTabletSuffix))]
      ELSE IF ts.isPartialMigration THEN
        [base EXCEPT !.IsReverse = isReverse, !.WorkflowType = "MoveTables",
           !.ShardsNotYetSwitched = {r \in Keyspaces \X Shards : t.shardRules[r] = sourceKeyspace},
           !.ShardsAlreadySwitched = {r \in Keyspaces \X Shards : t.shardRules[r] = targetKeyspace}]
      ELSE
        [base EXCEPT !.IsReverse = isReverse, !.WorkflowType = "MoveTables",
           !.RdonlyCellsSwitched = GetCellsWithTableReadsSwitched(t, sourceKeyspace, TableList[1], "RDONLY"),
           !.RdonlyCellsNotSwitched = Cells \ GetCellsWithTableReadsSwitched(t, sourceKeyspace, TableList[1], "RDONLY"),
           !.ReplicaCellsSwitched = GetCellsWithTableReadsSwitched(t, sourceKeyspace, TableList[1], "REPLICA"),
           !.ReplicaCellsNotSwitched = Cells \ GetCellsWithTableReadsSwitched(t, sourceKeyspace, TableList[1], "REPLICA"),
           !.WritesSwitched = TableWritesSwitched(t, sourceKeyspace)])
  ELSE
    withType(
      [base EXCEPT !.IsReverse = isReverse, !.WorkflowType = "Reshard",
         !.RdonlyCellsSwitched = GetCellsWithShardReadsSwitched(t, shardSide, "RDONLY"),
         !.RdonlyCellsNotSwitched = Cells \ GetCellsWithShardReadsSwitched(t, shardSide, "RDONLY"),
         !.ReplicaCellsSwitched = GetCellsWithShardReadsSwitched(t, shardSide, "REPLICA"),
         !.ReplicaCellsNotSwitched = Cells \ GetCellsWithShardReadsSwitched(t, shardSide, "REPLICA"),
         !.WritesSwitched = ~t.serving[shardSide]])

(***************************************************************************)
(* The switcher primitives (iswitcher / trafficSwitcher).  Each is a       *)
(* function of the topology; the fan-out ones take the set of shards on    *)
(* which the per-shard call went through.                                  *)
(***************************************************************************)
SetDenied(t, sd, shs, v) ==
  [t EXCEPT !.denied[sd] = [i \in Shards |-> IF i \in shs THEN v ELSE t.denied[sd][i]]]

\* A variant that leaves the source writable.
stopSourceWritesSkipped(t, ts, shs) == t

stopSourceWrites(t, ts, shs) == SetDenied(t, ts.src, shs, TRUE)

allowTargetWrites(t, ts, shs) == SetDenied(t, ts.tgt, shs, FALSE)

\* The journal rows that do not carry the id.
WithoutJournal(js, id) == SelectSeq(js, LAMBDA x : x # id)

\* deleteReverseVReplication: the reverse streams are deleted; the journal
\* rows of their migration id (on the target side, the source of the reverse
\* workflow) match no later id and are forgotten.
deleteReverseVReplication(t, ts) ==
  [t EXCEPT !.streams[ts.reverseWorkflow] = [i \in Shards |-> NoStream],
            !.journals[ts.tgt] = [i \in Shards |->
               WithoutJournal(t.journals[ts.tgt][i],
                              HashStreams(ts.sourceKeyspace, ShardNames(ts.src)))]]

\* cancelMigration: writes are allowed on the source again and the reverse
\* streams are removed.
cancelMigration(t, ts) ==
  deleteReverseVReplication(SetDenied(t, ts.src, Shards, FALSE), ts)

\* createReverseVReplication: the reverse streams are created stopped.
createReverseVReplication(t, ts) ==
  [deleteReverseVReplication(t, ts) EXCEPT !.streams[ts.reverseWorkflow] =
     [i \in Shards |-> [state |-> "Stopped", message |-> ""]]]

startReverseVReplication(t, ts) ==
  [t EXCEPT !.streams[ts.reverseWorkflow] =
     [i \in Shards |-> IF t.streams[ts.reverseWorkflow][i].state = "none"
                         THEN NoStream ELSE [state |-> "Running", message |-> ""]]]

freezeTargetVReplication(t, ts, shs) ==
  [t EXCEPT !.streams[ts.workflow] =
     [i \in Shards |-> IF i \in shs /\ t.streams[ts.workflow][i].state # "none"
                         THEN [state |-> "Running", message |-> Frozen]
                         ELSE t.streams[ts.workflow][i]]]

HasJournal(t, sd, i, id) == \E k \in 1..Len(t.journals[sd][i]) : t.journals[sd][i][k] = id

\* checkJournals: the source shards that hold a journal of the migration id
\* (source.Journaled); journals exist when one of them does.
checkJournals(t, ts) == {i \in Shards : HasJournal(t, ts.src, i, ts.id)}

\* createJournals: a journal row is written on each source shard that is not
\* yet journaled.
createJournals(t, ts, journaled, shs) ==
  [t EXCEPT !.journals[ts.src] =
     [i \in Shards |-> IF i \in shs /\ i \notin journaled
                         THEN Append(t.journals[ts.src][i], ts.id)
                         ELSE t.journals[ts.src][i]]]

RebuildSrvVSchema(t, cells) ==
  [t EXCEPT !.srvRules = [c \in Cells |-> IF cells = {} \/ c \in cells
                                            THEN t.rules ELSE t.srvRules[c]]]

\* changeTableRouting: the rule of targetKs.table is deleted, table and
\* sourceKs.table route to the target.
changeTableRouting(t, ts) ==
  [t EXCEPT !.rules = [k \in RuleKeys |->
     IF k[3] # primaryTabletSuffix \/ k[2] \notin Tables THEN t.rules[k]
     ELSE IF k[1] = ts.targetKeyspace THEN "none"
     ELSE ts.targetKeyspace]]

changeShardRoutingRules(t, ts) ==
  [t EXCEPT !.shardRules = [k \in Keyspaces \X Shards |->
     IF k[1] = ts.targetKeyspace THEN "none"
     ELSE IF k[1] = ts.sourceKeyspace THEN ts.targetKeyspace
     ELSE t.shardRules[k]]]

switchKeyspaceReads(t, ts, types) ==
  [t EXCEPT !.ksRules = [k \in Keyspaces \X tabletTypeSuffixes |->
     IF k[1] = ts.sourceKeyspace /\ k[2] \in {Suffix(tt) : tt \in types}
       THEN ts.targetKeyspace ELSE t.ksRules[k]]]

changeShardRouting(t, ts) ==
  [t EXCEPT !.serving = [sd \in Sides |-> sd = ts.tgt]]

changeRouting(t, ts) ==
  IF ts.migrationType = "TABLES"
    THEN RebuildSrvVSchema(
           IF ts.isMultiTenant THEN switchKeyspaceReads(t, ts, {"PRIMARY"})
           ELSE IF ts.isPartialMigration THEN changeShardRoutingRules(t, ts)
           ELSE changeTableRouting(t, ts), {})
    ELSE changeShardRouting(t, ts)

\* A variant of mirrorTableTraffic that stores the percentage as requested.
mirrorTableTrafficAsRequested(t, types, percent) ==
  [t EXCEPT !.mirror = [tt \in TabletTypes |-> IF tt \in types THEN percent ELSE t.mirror[tt]]]

\* mirrorTableTraffic: the percentage is clamped to [0, 100]; percent 0
\* removes the mirror rules of the types.
mirrorTableTraffic(t, types, percent) ==
  LET clamped == IF percent < 0 THEN 0 ELSE IF percent > 100 THEN 100 ELSE percent
      rule == IF clamped = 0 THEN NoMirrorRule ELSE clamped
  IN  [t EXCEPT !.mirror = [tt \in TabletTypes |-> IF tt \in types THEN rule ELSE t.mirror[tt]]]

\* A variant of switchTableReads that routes to the target in either
\* direction.
switchTableReadsOneWay(t, ts, cells, types, rebuildSrvVSchema, direction) ==
  LET new == [t EXCEPT !.rules = [k \in RuleKeys |->
                IF k[2] \in Tables /\ k[3] \in {Suffix(tt) : tt \in types \cap RoTypes}
                  THEN ts.targetKeyspace ELSE t.rules[k]]]
  IN  IF rebuildSrvVSchema THEN RebuildSrvVSchema(new, cells) ELSE new

switchTableReads(t, ts, cells, types, rebuildSrvVSchema, direction) ==
  LET to == IF direction = "FORWARD" THEN ts.targetKeyspace ELSE ts.sourceKeyspace
      new == [t EXCEPT !.rules = [k \in RuleKeys |->
                IF k[2] \in Tables /\ k[3] \in {Suffix(tt) : tt \in types \cap RoTypes}
                  THEN to ELSE t.rules[k]]]
  IN  IF rebuildSrvVSchema THEN RebuildSrvVSchema(new, cells) ELSE new

switchShardReads(t, ts, cells, types, direction) ==
  LET from == IF direction = "FORWARD" THEN ts.src ELSE ts.tgt
  IN  [t EXCEPT !.partition = [c \in Cells |-> [tt \in RoTypes |->
         IF (cells = {} \/ c \in cells) /\ tt \in types
           THEN [refs |-> Other(from),
                 ctl |-> [sd \in Sides |-> IF sd = from THEN "disabled" ELSE "none"]]
           ELSE t.partition[c][tt]]]]

(***************************************************************************)
(* Verb frames.  call[p] is the activation record of the verb process p    *)
(* is running: its request, its position and its locals.                   *)
(***************************************************************************)
Directions == {"FORWARD", "BACKWARD"}
TimeoutValues == {Unset, 999, 1000}
MaxLagAllowedValues == {Unset, 1500}
RefreshOutcomes == [partial : BOOLEAN, err : BOOLEAN]

IdleFrame ==
  [ verb |-> "none", pc |-> "idle",
    direction |-> "", types |-> {}, enableRev |-> FALSE, timeout |-> Unset, cancel |-> FALSE,
    keepData |-> FALSE, keepRules |-> FALSE,
    wf |-> <<>>, frozen |-> FALSE, start |-> EmptyState, dir |-> "", wrAlready |-> FALSE,
    roTypes |-> {}, cells |-> {}, gate |-> "", blocked |-> FALSE, reason |-> "",
    lag |-> 0, maxLag |-> Unset, allowed |-> 0,
    preDenied |-> {}, journaled |-> {}, jExist |-> FALSE, cnt |-> 0,
    stopped |-> FALSE, rolled |-> FALSE, step |-> "", percent |-> 0,
    noRules |-> FALSE, autoStart |-> FALSE, pre |-> <<>>, unlockErr |-> "", ttl |-> 0,
    code |-> "", resp |-> FALSE, dirty |-> {} ]

\* The traffic switcher the verb built: ts.frozen is the value read then.
TS(p) == [buildTrafficSwitcher(topo, call[p].wf) EXCEPT !.frozen = call[p].frozen]

\* vterrors.Wrap: wrapping a nil error gives nil.
Wrap(err, message) == IF err = "nil" THEN "nil" ELSE err

\* The parts of the topology that differ between two of its states.
Changed(old, new) == {fld \in DOMAIN old : old[fld] # new[fld]}

\* The lower bound of the timeout (milliseconds).
TimeoutTooShort(timeout) == timeout < 1000

\* The verb goes on: topology and frame change, locks stay.  The frame keeps
\* in `dirty` the parts of the topology the verb has changed so far.
Go(p, newTopo, f) ==
  /\ topo' = newTopo
  /\ call' = [call EXCEPT ![p] = [f EXCEPT !.dirty = f.dirty \cup Changed(topo, newTopo)]]
  /\ UNCHANGED <<fixed, nameLock, ksLock>>

\* The verb returns: the deferred unlocks release every lock it holds.  The
\* frame keeps the result and what the verb did; the locals and the request
\* fields that nothing reads after the return are cleared (the tablet types
\* of a mirror request and of a request that was refused as invalid or by
\* the gate are kept).
Ret(p, newTopo, f, code, resp) ==
  /\ topo' = newTopo
  /\ call' = [call EXCEPT ![p] = [f EXCEPT !.pc = "done", !.code = code, !.resp = resp,
                                         !.dirty = f.dirty \cup Changed(topo, newTopo),
                                         !.roTypes = {}, !.cells = {}, !.journaled = {},
                                         !.cnt = 0, !.keepData = FALSE, !.keepRules = FALSE,
                                         !.ttl = 0,
                                         !.timeout = IF TimeoutTooShort(f.timeout)
                                                       THEN f.timeout ELSE Unset,
                                         !.types = IF \/ f.gate = "refused" \/ code = "INVALID_ARGUMENT"
                                                        \/ f.verb = "WorkflowMirrorTraffic"
                                                     THEN f.types ELSE {},
                                         !.start = EmptyState]]
  /\ nameLock' = [n \in WfNames |-> IF nameLock[n] = p THEN "none" ELSE nameLock[n]]
  /\ ksLock' = [k \in Keyspaces |-> IF ksLock[k] = p THEN "none" ELSE ksLock[k]]
  /\ UNCHANGED fixed

\* The shards a failed fan-out call got through to: shards are alike, so a
\* proper initial segment stands for every proper subset of that size.
SomeShards == {1..k : k \in 0..(NumShards - 1)}

\* The cells a request names: none, which stands for all of them.
CellChoices == {{}}

\* The tablet types a switch request names.
TypeChoices == {{"PRIMARY"}, RoTypes, TabletTypes}

\* topo.CheckKeyspaceLocked
CheckKeyspaceLocked(p, keyspace) == ksLock[keyspace] = p

(***************************************************************************)
(* WorkflowSwitchTraffic.                                                  *)
(***************************************************************************)
\* "We need this for idempotency and to avoid unnecessary work".
writesAlreadySwitched(direction, startState) ==
  \/ direction = "FORWARD" /\ startState.WritesSwitched
  \/ direction = "BACKWARD" /\ ~startState.WritesSwitched

\* A variant of onlySwitchingReads that looks at the request alone.
onlySwitchingReadsOfRequest(startState, switchPrimary) == ~switchPrimary

\* "We need this to know when there isn't a (non-FROZEN) reverse workflow to
\* use".
onlySwitchingReads(startState, switchPrimary) ==
  ~startState.WritesSwitched /\ ~switchPrimary

\* A variant of StreamReason that lets a stream in Error through.
StreamReasonIgnoringErrors(st) ==
  IF st.message = Frozen THEN cannotSwitchFrozen
  ELSE IF st.state = "Copying" THEN cannotSwitchCopyIncomplete
  ELSE ""

\* The reason a stream gives canSwitch for not switching.
StreamReason(st) ==
  IF st.message = Frozen THEN cannotSwitchFrozen
  ELSE IF st.state = "Copying" THEN cannotSwitchCopyIncomplete
  ELSE IF st.state = "Error" THEN cannotSwitchError
  ELSE ""

\* A variant of canSwitch that refuses a lag equal to the allowed one.
canSwitchLagInclusive(t, ts, lag, maxAllowedReplLagSecs, first, refresh, force) ==
  IF lag >= maxAllowedReplLagSecs THEN cannotSwitchHighLag
  ELSE IF first # 0 THEN StreamReason(t.streams[ts.workflow][first])
  ELSE IF (refresh.err \/ refresh.partial) /\ ~(refresh.partial /\ force)
    THEN cannotSwitchFailedTabletRefresh
  ELSE ""

\* Lines 3338-3347: the outcome of RefreshTabletsByShard for a shard is
\* written to refreshErrors unless it is a partial refresh under force.
refreshReported(refresh, force) ==
  (refresh.err \/ refresh.partial) /\ ~(refresh.partial /\ force)

\* canSwitch; `first` is the first stream with a reason that the iteration
\* over the map of shard streams meets (0: none has one).
canSwitch(t, ts, lag, maxAllowedReplLagSecs, first, refresh, force) ==
  IF lag > maxAllowedReplLagSecs THEN cannotSwitchHighLag
  ELSE IF first # 0 THEN StreamReason(t.streams[ts.workflow][first])
  ELSE IF refreshReported(refresh, force) THEN cannotSwitchFailedTabletRefresh
  ELSE ""

\* canSwitch with the outcome of RefreshTabletsByShard for every source and
\* target shard: the two goroutines of lines 3351-3355 append under the mutex
\* and the reason is given when anything was written (line 3356).
canSwitchShards(t, ts, lag, maxAllowedReplLagSecs, first, outcomes, force) ==
  IF lag > maxAllowedReplLagSecs THEN cannotSwitchHighLag
  ELSE IF first # 0 THEN StreamReason(t.streams[ts.workflow][first])
  ELSE IF \E sh \in DOMAIN outcomes : refreshReported(outcomes[sh], force)
    THEN cannotSwitchFailedTabletRefresh
  ELSE ""

FirstStreams(t, n) ==
  IF \E i \in Shards : StreamReason(t.streams[n][i]) # ""
    THEN {i \in Shards : StreamReason(t.streams[n][i]) # ""} ELSE {0}

AfterGate(f) == IF f.types \cap RoTypes # {} THEN "switchReads" ELSE "switchWrites"
AfterReads(f) == IF "PRIMARY" \in f.types THEN "switchWrites" ELSE "finish"

\* Lines 2698-2767: the request is parsed and the workflow state is read.
WorkflowSwitchTraffic(p) ==
  /\ call[p].pc = "idle"
  /\ kind # "lookup"
  /\ \E timeout \in TimeoutValues, direction \in Directions,
        types \in TypeChoices, enableReverseReplication \in BOOLEAN :
       LET enableRev == enableReverseReplication /\ "PRIMARY" \in types
           tmo == IF timeout = Unset THEN DefaultTimeout ELSE timeout
           f0 == [IdleFrame EXCEPT !.verb = "WorkflowSwitchTraffic", !.direction = direction,
                                   !.types = types, !.enableRev = enableRev]
           ts == buildTrafficSwitcher(topo, WfName)
           st == getWorkflowState(topo, WfName)
           wrAlready == writesAlreadySwitched(direction, st)
       IN  IF TimeoutTooShort(tmo)
             THEN Ret(p, topo, [IdleFrame EXCEPT !.verb = "WorkflowSwitchTraffic", !.timeout = tmo],
                      Wrap("nil", "timeout must be at least 1 second"), FALSE)
           ELSE IF ~WorkflowExists(topo, WfName)
             THEN Ret(p, topo, f0, "NOT_FOUND", FALSE)
           ELSE IF st.WorkflowType = "Migrate"
             THEN Ret(p, topo, f0, "INVALID_ARGUMENT", FALSE)
           ELSE IF direction = "BACKWARD" /\ ~onlySwitchingReads(st, "PRIMARY" \in types)
             THEN IF ts.isMultiTenant
                    THEN Ret(p, topo, [f0 EXCEPT
                                  !.reason = "cannot reverse write traffic for multi-tenant migrations"],
                             "INVALID_ARGUMENT", FALSE)
                  ELSE IF ~WorkflowExists(topo, ts.reverseWorkflow)
                    THEN Ret(p, topo, f0, "NOT_FOUND", FALSE)
                  ELSE Go(p, topo, [f0 EXCEPT !.pc = "lockName", !.wf = ts.reverseWorkflow,
                                      !.frozen = TargetsFrozen(topo, ts.reverseWorkflow),
                                      !.start = getWorkflowState(topo, ts.reverseWorkflow),
                                      !.dir = "FORWARD", !.wrAlready = wrAlready])
           ELSE Go(p, topo, [f0 EXCEPT !.pc = "lockName", !.wf = WfName, !.frozen = ts.frozen,
                               !.start = st, !.dir = direction, !.wrAlready = wrAlready])

\* Lines 2769-2776: the named lock of the workflow.
SwitchTrafficLockName(p) ==
  /\ call[p].pc = "lockName"
  /\ call[p].verb = "WorkflowSwitchTraffic"
  /\ IF nameLock[call[p].wf] = "none"
       THEN /\ nameLock' = [nameLock EXCEPT ![call[p].wf] = p]
            /\ call' = [call EXCEPT ![p].pc = "canSwitch"]
            /\ UNCHANGED <<fixed, topo, ksLock>>
       ELSE Ret(p, topo, call[p], "UNKNOWN", FALSE)

\* A stream that keeps the workflow from being switched.
StreamBlocks(st) == st.state \in {"Copying", "Error"} \/ st.message = Frozen

\* Lines 2778-2792: the validation gate.  The frame notes in `blocked`
\* whether a stream of the workflow was Copying, in Error or FROZEN then.
SwitchTrafficCanSwitch(p) ==
  /\ call[p].pc = "canSwitch"
  /\ LET ts == TS(p)
         f == [call[p] EXCEPT !.blocked = \E i \in Shards : StreamBlocks(topo.streams[ts.workflow][i])]
     IN  IF f.wrAlready
           THEN Go(p, topo, [f EXCEPT !.pc = AfterGate(f), !.gate = "skipped"])
           ELSE \/ Ret(p, topo, [f EXCEPT !.gate = "failed", !.enableRev = FALSE], "UNKNOWN", FALSE)
                \/ \E lag \in LagValues, maxLag \in MaxLagAllowedValues,
                      first \in FirstStreams(topo, ts.workflow),
                      refresh \in RefreshOutcomes, force \in BOOLEAN :
                     LET allowed == (IF maxLag = Unset THEN DefaultTimeout ELSE maxLag) \div 1000
                         reason == canSwitch(topo, ts, lag, allowed, first, refresh, force)
                         g == [f EXCEPT !.lag = lag, !.maxLag = maxLag, !.allowed = allowed,
                                        !.reason = reason]
                     IN  IF reason # ""
                           THEN Ret(p, topo, [g EXCEPT !.gate = "refused", !.enableRev = FALSE],
                                    "FAILED_PRECONDITION", FALSE)
                           ELSE Go(p, topo, [g EXCEPT !.pc = AfterGate(f), !.gate = "passed"])

(***************************************************************************)
(* switchReads.                                                            *)
(***************************************************************************)
ReleaseKeyspaceLocks(p) ==
  ksLock' = [k \in Keyspaces |-> IF ksLock[k] = p THEN "none" ELSE ksLock[k]]

\* The timeouts that WorkflowSwitchTraffic lets through (lines 2698-2711).
AcceptedTimeouts ==
  {tmo \in {IF t = Unset THEN DefaultTimeout ELSE t : t \in TimeoutValues} : ~TimeoutTooShort(tmo)}

\* Lines 2961-2969: the TTL of the keyspace lock of switchReads, the timeout
\* of the request or the default.
switchReadsLockTTL(timeout) == timeout

\* Lines 2860-2976: the request is checked and the source keyspace locked.
\* The timeout of the request shows in the frame where the verb reads it
\* for the TTL of its keyspace locks, with that TTL, up to the next step.
SwitchReadsEnter(p) ==
  /\ call[p].pc = "switchReads"
  /\ \E cells \in CellChoices, rdonlyTabletsExist \in BOOLEAN, valid \in BOOLEAN :
       LET f == [call[p] EXCEPT !.lag = 0, !.maxLag = Unset, !.allowed = 0]
           ts == TS(p)
           ro0 == f.types \ {"PRIMARY"}
           switchReplica == "REPLICA" \in ro0
           switchRdonly == "RDONLY" \in ro0
           trafficSwitchingIsAllOrNothing == ts.isPartialMigration
           ro == IF switchReplica /\ ~switchRdonly /\ ~rdonlyTabletsExist
                   THEN ro0 \cup {"RDONLY"} ELSE ro0
       IN  IF /\ ~ts.isPartialMigration
              /\ ts.migrationType = "TABLES" /\ ts.isMultiTenant
              /\ cells # {} /\ cells # Cells
             THEN Ret(p, topo, f, "INVALID_ARGUMENT", FALSE)
           ELSE IF /\ ~trafficSwitchingIsAllOrNothing /\ f.dir = "BACKWARD"
                   /\ \/ switchReplica /\ f.start.ReplicaCellsSwitched = {}
                      \/ switchRdonly /\ f.start.RdonlyCellsSwitched = {}
             THEN Ret(p, topo, f, "FAILED_PRECONDITION", FALSE)
           ELSE IF ~valid \/ ksLock[ts.sourceKeyspace] # "none"
             THEN Ret(p, topo, f, "UNKNOWN", FALSE)
           ELSE /\ \E timeout \in AcceptedTimeouts :
                     call' = [call EXCEPT ![p] = [f EXCEPT !.pc = "sr_mirror", !.roTypes = ro,
                                                          !.cells = cells, !.start = EmptyState,
                                                          !.timeout = timeout,
                                                          !.ttl = switchReadsLockTTL(timeout)]]
                /\ ksLock' = [ksLock EXCEPT ![ts.sourceKeyspace] = p]
                /\ UNCHANGED <<fixed, topo, nameLock>>

\* Lines 2987-2991: the mirror rules of the read-only types are removed.
SwitchReadsMirror(p) ==
  /\ call[p].pc = "sr_mirror"
  /\ \/ Go(p, mirrorTableTraffic(topo, call[p].roTypes, 0),
            [call[p] EXCEPT !.pc = "sr_switch", !.ttl = 0, !.timeout = Unset])
     \/ Ret(p, topo, call[p], "UNKNOWN", FALSE)

\* The read switch proper, by migration type and workflow variant.
switchReadsEffect(t, ts, f) ==
  IF ts.migrationType = "TABLES"
    THEN IF ts.isMultiTenant THEN switchKeyspaceReads(t, ts, f.roTypes)
         ELSE IF ts.isPartialMigration THEN t
         ELSE switchTableReads(t, ts, f.cells, f.roTypes, "PRIMARY" \notin f.types, f.dir)
    ELSE switchShardReads(t, ts, f.cells, f.roTypes, f.dir)

\* Lines 2993-3030; on return the deferred unlock releases the keyspace.
SwitchReadsSwitch(p) ==
  /\ call[p].pc = "sr_switch"
  /\ LET f == call[p]
         ts == TS(p)
         new == switchReadsEffect(topo, ts, f)
     IN  IF ts.migrationType = "SHARDS" /\ ~CheckKeyspaceLocked(p, ts.sourceKeyspace)
           THEN Ret(p, topo, [f EXCEPT !.reason = "locks were lost"], "UNKNOWN", FALSE)
           ELSE \/ /\ topo' = new
                   /\ call' = [call EXCEPT ![p] = [f EXCEPT !.pc = AfterReads(f), !.cells = {},
                                   !.roTypes = {}, !.ttl = 0,
                                   !.dirty = f.dirty \cup Changed(topo, new)]]
                   /\ ReleaseKeyspaceLocks(p)
                   /\ UNCHANGED <<fixed, nameLock>>
                \/ Ret(p, topo, f, "UNKNOWN", FALSE)
                \/ /\ ts.migrationType = "SHARDS"
                   /\ Ret(p, new, f, "UNKNOWN", FALSE)

(***************************************************************************)
(* switchWrites.                                                           *)
(***************************************************************************)
confirmKeyspaceLocksHeld(p, ts) ==
  CheckKeyspaceLocked(p, ts.sourceKeyspace) /\ CheckKeyspaceLocked(p, ts.targetKeyspace)

\* Lines 3050-3071.
SwitchWritesEnter(p) ==
  /\ call[p].pc = "switchWrites"
  /\ \E valid \in BOOLEAN, able \in BOOLEAN :
       LET f == [call[p] EXCEPT !.lag = 0, !.maxLag = Unset, !.allowed = 0, !.start = EmptyState,
                                !.types = {"PRIMARY"}]
           ts == TS(p)
       IN  IF ts.frozen THEN Go(p, topo, [f EXCEPT !.pc = "finish"])
           ELSE IF ~valid THEN Ret(p, topo, f, "UNKNOWN", FALSE)
           ELSE IF f.enableRev /\ ~able THEN Ret(p, topo, f, "FAILED_PRECONDITION", FALSE)
           ELSE Go(p, topo, [f EXCEPT !.pc = "sw_lockSource",
                               !.preDenied = {i \in Shards : topo.denied[ts.src][i]}])

\* Line 3077: the TTL of the keyspace locks of switchWrites.
switchWritesLockTTL(waitTimeout) == waitTimeout * 3

LockKeyspaceStep(p, here, keyspace, next) ==
  /\ call[p].pc = here
  /\ IF ksLock[keyspace] = "none"
       THEN /\ ksLock' = [ksLock EXCEPT ![keyspace] = p]
            /\ \E waitTimeout \in IF call[p].timeout = Unset THEN AcceptedTimeouts
                                   ELSE {call[p].timeout} :
                 call' = [call EXCEPT ![p].pc = next, ![p].timeout = waitTimeout,
                                      ![p].ttl = switchWritesLockTTL(waitTimeout)]
            /\ UNCHANGED <<fixed, topo, nameLock>>
       ELSE Ret(p, topo, call[p], "UNKNOWN", FALSE)

\* Lines 3079-3085.
SwitchWritesLockSource(p) ==
  LockKeyspaceStep(p, "sw_lockSource", TS(p).sourceKeyspace,
                   IF TS(p).targetKeyspace # TS(p).sourceKeyspace THEN "sw_lockTarget" ELSE "sw_mirror")

\* Lines 3086-3093.
SwitchWritesLockTarget(p) ==
  LockKeyspaceStep(p, "sw_lockTarget", TS(p).targetKeyspace, "sw_mirror")

\* Lines 3107-3111.
SwitchWritesMirror(p) ==
  /\ call[p].pc = "sw_mirror"
  /\ \/ Go(p, mirrorTableTraffic(topo, {"PRIMARY"}, 0),
            [call[p] EXCEPT !.pc = "sw_checkJournals", !.ttl = 0, !.timeout = Unset])
     \/ Ret(p, topo, call[p], "UNKNOWN", FALSE)

\* A variant of the journal check that goes through the steps before the
\* journals whether they exist or not.
SwitchWritesCheckJournalsIgnored(p) ==
  /\ call[p].pc = "sw_checkJournals"
  /\ LET ts == TS(p)
         journaled == checkJournals(topo, ts)
         f == [call[p] EXCEPT !.journaled = journaled, !.jExist = journaled # {}]
     IN  \/ Ret(p, topo, call[p], "UNKNOWN", FALSE)
         \/ IF f.cancel
              THEN Ret(p, cancelMigration(topo, ts), [f EXCEPT !.rolled = TRUE], "nil", FALSE)
              ELSE Go(p, topo, [f EXCEPT !.pc = "sw_stopSourceWrites"])

\* Lines 3128-3144 and 3265-3274.
SwitchWritesCheckJournals(p) ==
  /\ call[p].pc = "sw_checkJournals"
  /\ LET ts == TS(p)
         journaled == checkJournals(topo, ts)
         journalsExist == journaled # {}
         f == [call[p] EXCEPT !.journaled = journaled, !.jExist = journalsExist]
     IN  \/ Ret(p, topo, call[p], "UNKNOWN", FALSE)
         \/ IF ~journalsExist
              THEN IF f.cancel
                     THEN Ret(p, cancelMigration(topo, ts), [f EXCEPT !.rolled = TRUE], "nil", FALSE)
                     ELSE Go(p, topo, [f EXCEPT !.pc = "sw_stopSourceWrites"])
              ELSE IF f.cancel
                     THEN Ret(p, topo, f, "FAILED_PRECONDITION", FALSE)
                     ELSE Go(p, topo, [f EXCEPT !.pc = "sw_createJournals"])

\* A step of switchWrites that leaves the topology `new` when it succeeds:
\* the keyspace locks are confirmed first where the code does so; when the
\* step fails the migration is cancelled where the code calls cancelMigration.
SwitchWritesStep(p, here, next, confirm, new, rollback) ==
  /\ call[p].pc = here
  /\ LET f == call[p]
         ts == TS(p)
     IN  IF confirm /\ ~confirmKeyspaceLocksHeld(p, ts)
           THEN Ret(p, topo, [f EXCEPT !.step = here, !.reason = "locks were lost"], "UNKNOWN", FALSE)
           ELSE \/ Go(p, new, [f EXCEPT !.pc = next])
                \/ Ret(p, IF rollback THEN cancelMigration(topo, ts) ELSE topo,
                       [f EXCEPT !.step = here, !.rolled = rollback], "UNKNOWN", FALSE)

\* Lines 3153-3159.
SwitchWritesStopSourceWrites(p) ==
  /\ call[p].pc = "sw_stopSourceWrites"
  /\ LET f == call[p]
         ts == TS(p)
     IN  \/ Go(p, stopSourceWrites(topo, ts, Shards), [f EXCEPT !.pc = "sw_stopStreams", !.stopped = TRUE])
         \/ Ret(p, cancelMigration(topo, ts),
                [f EXCEPT !.step = "sw_stopSourceWrites", !.rolled = TRUE], "UNKNOWN", FALSE)

\* Lines 3161-3179.
SwitchWritesStopStreams(p) ==
  SwitchWritesStep(p, "sw_stopStreams",
                   IF TS(p).migrationType = "TABLES" THEN "sw_lockTables" ELSE "sw_gatherSourcePositions",
                   FALSE, topo, TRUE)

\* Lines 3181-3196: lockTablesCycles rounds of LOCK TABLES.
SwitchWritesLockTables(p) ==
  /\ call[p].pc = "sw_lockTables"
  /\ LET f == call[p]
         ts == TS(p)
     IN  \/ Go(p, topo, IF f.cnt + 1 >= lockTablesCycles
                          THEN [f EXCEPT !.pc = "sw_gatherSourcePositions", !.cnt = 0]
                          ELSE [f EXCEPT !.cnt = f.cnt + 1])
         \/ Ret(p, cancelMigration(topo, ts),
                [f EXCEPT !.step = "sw_lockTables", !.rolled = TRUE], "UNKNOWN", FALSE)

\* Lines 3200-3202.
SwitchWritesGatherSourcePositions(p) ==
  SwitchWritesStep(p, "sw_gatherSourcePositions", "sw_waitForCatchup", FALSE, topo, FALSE)

\* Lines 3204-3213.
SwitchWritesWaitForCatchup(p) ==
  SwitchWritesStep(p, "sw_waitForCatchup", "sw_migrateStreams", TRUE, topo, TRUE)

\* Lines 3215-3224.
SwitchWritesMigrateStreams(p) ==
  SwitchWritesStep(p, "sw_migrateStreams", "sw_resetSequences", TRUE, topo, TRUE)

\* Lines 3226-3235.
SwitchWritesResetSequences(p) ==
  SwitchWritesStep(p, "sw_resetSequences", "sw_createReverse", TRUE, topo, TRUE)

\* Lines 3237-3246.
SwitchWritesCreateReverse(p) ==
  SwitchWritesStep(p, "sw_createReverse", "sw_initSequences", TRUE,
                   createReverseVReplication(topo, TS(p)), TRUE)

\* Lines 3248-3264: the target sequences are initialised when requested.
SwitchWritesInitSequences(p) ==
  SwitchWritesStep(p, "sw_initSequences", "sw_createJournals", TRUE, topo, TRUE)

\* A fan-out step after the point of no return; eff[shs] is the topology
\* when the calls to the shards shs went through.  When the step fails the
\* calls to some of the shards may have gone through.
SwitchWritesFanOut(p, here, next, confirm, eff) ==
  /\ call[p].pc = here
  /\ LET f == call[p]
         ts == TS(p)
     IN  IF confirm /\ ~confirmKeyspaceLocksHeld(p, ts)
           THEN Ret(p, topo, [f EXCEPT !.step = here, !.reason = "locks were lost"], "UNKNOWN", FALSE)
           ELSE \/ Go(p, eff[Shards], [f EXCEPT !.pc = next])
                \/ \E shs \in SomeShards :
                     Ret(p, eff[shs], [f EXCEPT !.step = here], "UNKNOWN", FALSE)

\* A variant of the journal step that goes on without writing the journals.
SwitchWritesCreateJournalsSkipped(p) ==
  SwitchWritesStep(p, "sw_createJournals", "sw_allowTargetWrites", TRUE, topo, FALSE)

\* Lines 3276-3283.
SwitchWritesCreateJournals(p) ==
  SwitchWritesFanOut(p, "sw_createJournals", "sw_allowTargetWrites", TRUE,
                     [shs \in SUBSET Shards |-> createJournals(topo, TS(p), call[p].journaled, shs)])

\* Lines 3284-3286.
SwitchWritesAllowTargetWrites(p) ==
  SwitchWritesFanOut(p, "sw_allowTargetWrites", "sw_changeRouting", FALSE,
                     [shs \in SUBSET Shards |-> allowTargetWrites(topo, TS(p), shs)])

\* Lines 3287-3289.
SwitchWritesChangeRouting(p) ==
  SwitchWritesStep(p, "sw_changeRouting", "sw_finalize", FALSE,
                   changeRouting(topo, TS(p)), FALSE)

\* Lines 3290-3292.
SwitchWritesFinalize(p) ==
  SwitchWritesStep(p, "sw_finalize", "sw_startReverse", FALSE, topo, FALSE)

\* Lines 3293-3297.
SwitchWritesStartReverse(p) ==
  IF call[p].enableRev
    THEN SwitchWritesStep(p, "sw_startReverse", "sw_freeze", FALSE,
                          startReverseVReplication(topo, TS(p)), FALSE)
    ELSE /\ call[p].pc = "sw_startReverse"
         /\ Go(p, topo, [call[p] EXCEPT !.pc = "sw_freeze"])

\* A variant of the last step that returns without freezing the targets.
SwitchWritesFreezeSkipped(p) ==
  /\ call[p].pc = "sw_freeze"
  /\ call' = [call EXCEPT ![p].pc = "finish", ![p].ttl = 0]
  /\ ReleaseKeyspaceLocks(p)
  /\ UNCHANGED <<fixed, topo, nameLock>>

\* Lines 3299-3303; the deferred unlocks release both keyspaces.
SwitchWritesFreeze(p) ==
  /\ call[p].pc = "sw_freeze"
  /\ LET f == call[p]
         ts == TS(p)
         new == freezeTargetVReplication(topo, ts, Shards)
     IN  \/ /\ topo' = new
            /\ call' = [call EXCEPT ![p] = [f EXCEPT !.pc = "finish", !.ttl = 0,
                                                   !.dirty = f.dirty \cup Changed(topo, new)]]
            /\ ReleaseKeyspaceLocks(p)
            /\ UNCHANGED <<fixed, nameLock>>
         \/ \E shs \in SomeShards :
              Ret(p, freezeTargetVReplication(topo, ts, shs), [f EXCEPT !.step = "sw_freeze"], "UNKNOWN", FALSE)

\* Lines 2813-2856: the response is built and the verb returns.
SwitchTrafficFinish(p) ==
  /\ call[p].pc = "finish"
  /\ Ret(p, topo, call[p], "nil", TRUE)

(***************************************************************************)
(* Cleanup primitives of dropTargets and dropSources.                      *)
(***************************************************************************)
stopWorkflow(t, ts) ==
  [t EXCEPT !.streams[ts.workflow] =
     [i \in Shards |-> IF t.streams[ts.workflow][i].state = "none" THEN NoStream
                       ELSE [t.streams[ts.workflow][i] EXCEPT !.state = "Stopped"]]]

removeTables(t, sd) == [t EXCEPT !.tables[sd] = FALSE]

dropSourceDeniedTables(t, ts) == SetDenied(t, ts.src, Shards, FALSE)

dropTargetDeniedTables(t, ts) == SetDenied(t, ts.tgt, Shards, FALSE)

dropTargetVReplicationStreams(t, ts, shs) ==
  [t EXCEPT !.streams[ts.workflow] =
     [i \in Shards |-> IF i \in shs THEN NoStream ELSE t.streams[ts.workflow][i]]]

deleteRoutingRules(t, ts) ==
  [t EXCEPT !.rules = [k \in RuleKeys |-> IF k[2] \in Tables THEN "none" ELSE t.rules[k]]]

deleteShardRoutingRules(t, ts) ==
  IF ts.isPartialMigration THEN [t EXCEPT !.shardRules = NoShardRules] ELSE t

deleteKeyspaceRoutingRules(t, ts) ==
  IF ts.isMultiTenant THEN [t EXCEPT !.ksRules = NoKsRules] ELSE t

\* dropRelatedArtifacts, lines 2369-2389.
dropRelatedArtifacts(t, ts, keepRoutingRules) ==
  LET a == deleteReverseVReplication(t, ts)
  IN  IF keepRoutingRules THEN a
      ELSE deleteKeyspaceRoutingRules(deleteShardRoutingRules(deleteRoutingRules(a, ts), ts), ts)

\* dropArtifacts, lines 2467-2491.
dropArtifacts(t, ts, keepRoutingRules) ==
  LET a == dropTargetVReplicationStreams(deleteReverseVReplication(t, ts), ts, Shards)
  IN  IF keepRoutingRules THEN a
      ELSE deleteKeyspaceRoutingRules(deleteShardRoutingRules(deleteRoutingRules(a, ts), ts), ts)

\* dropTargets, lines 2136-2184: the steps in their order, `upto` of them
\* done (all 4 when the function succeeds).
dropTargetsStep(t, ts, keepData, keepRoutingRules, i) ==
  CASE i = 1 -> stopWorkflow(t, ts)
    [] i = 2 -> IF keepData THEN t
                ELSE IF ts.migrationType = "TABLES"
                  THEN dropTargetDeniedTables(dropSourceDeniedTables(
                         IF ts.isMultiTenant THEN t ELSE removeTables(t, ts.tgt), ts), ts)
                  ELSE removeTables(t, ts.tgt)
    [] i = 3 -> dropRelatedArtifacts(t, ts, keepRoutingRules)
    [] i = 4 -> RebuildSrvVSchema(t, {})

RECURSIVE dropTargets(_, _, _, _, _)
dropTargets(t, ts, keepData, keepRoutingRules, upto) ==
  IF upto = 0 THEN t
  ELSE dropTargetsStep(dropTargets(t, ts, keepData, keepRoutingRules, upto - 1),
                       ts, keepData, keepRoutingRules, upto)

\* dropSources, lines 2435-2464.
dropSourcesStep(t, ts, keepData, keepRoutingRules, i) ==
  CASE i = 1 -> IF keepData THEN t
                ELSE IF ts.migrationType = "TABLES"
                  THEN dropTargetDeniedTables(dropSourceDeniedTables(removeTables(t, ts.src), ts), ts)
                  ELSE removeTables(t, ts.src)
    [] i = 2 -> dropArtifacts(t, ts, keepRoutingRules)
    [] i = 3 -> RebuildSrvVSchema(t, {})

RECURSIVE dropSources(_, _, _, _, _)
dropSources(t, ts, keepData, keepRoutingRules, upto) ==
  IF upto = 0 THEN t
  ELSE dropSourcesStep(dropSources(t, ts, keepData, keepRoutingRules, upto - 1),
                       ts, keepData, keepRoutingRules, upto)

\* finalizeMigrateWorkflow, lines 2660-2677.
finalizeMigrateWorkflow(t, ts, cancel, keepData) ==
  LET a == dropTargetVReplicationStreams(t, ts, Shards)
  IN  IF ~cancel THEN RebuildSrvVSchema(a, {})
      ELSE IF ~keepData THEN removeTables(a, ts.tgt) ELSE a

\* The number of cleanup steps done when a cleanup fails: it fails at its
\* first remote call.
FailPoints == {0}

KeyspaceLocksFree(ts) ==
  ksLock[ts.sourceKeyspace] = "none" /\ ksLock[ts.targetKeyspace] = "none"

ErrWorkflowDeleteWritesSwitched ==
  "cannot delete workflow because you have already switched write traffic"
ErrWorkflowCompleteNotFullySwitched ==
  "cannot complete workflow because you have not yet switched all read and write traffic"

(***************************************************************************)
(* WorkflowDelete.                                                         *)
(***************************************************************************)
\* Lines 1550-1563: the state is read and the delete decided.
WorkflowDelete(p) ==
  /\ call[p].pc = "idle"
  /\ \E keepData \in BOOLEAN, keepRoutingRules \in BOOLEAN :
       LET f0 == [IdleFrame EXCEPT !.verb = "WorkflowDelete", !.keepData = keepData,
                                   !.keepRules = keepRoutingRules, !.wf = WfName]
           ts == buildTrafficSwitcher(topo, WfName)
           state == getWorkflowState(topo, WfName)
           f == [f0 EXCEPT !.start = state, !.frozen = ts.frozen]
       IN  IF ~WorkflowExists(topo, WfName)
             THEN Ret(p, topo, f0, "NOT_FOUND", FALSE)
           ELSE IF ts.workflowType # "CreateLookupIndex" /\ state.WritesSwitched
             THEN Ret(p, topo, f, ErrWorkflowDeleteWritesSwitched, FALSE)
           ELSE Go(p, topo, [f EXCEPT !.pc = "lockName"])

\* Lines 1565-1572.
DeleteLockName(p) ==
  /\ call[p].pc = "lockName"
  /\ call[p].verb = "WorkflowDelete"
  /\ IF nameLock[call[p].wf] = "none"
       THEN /\ nameLock' = [nameLock EXCEPT ![call[p].wf] = p]
            /\ call' = [call EXCEPT ![p].pc = "del_cleanup"]
            /\ UNCHANGED <<fixed, topo, ksLock>>
       ELSE Ret(p, topo, call[p], "UNKNOWN", FALSE)

\* Lines 1574-1622: the artifacts are cleaned up under the keyspace locks,
\* which the cleanup function releases when it returns.
\* dropTargets, dropSources and finalizeMigrateWorkflow take and release the
\* keyspace locks themselves: when the verb returns with their result the
\* frame keeps in `unlockErr` the error their deferred unlock closures read
\* from the variable `err` of the function.
\* Only the first step of dropTargets (line 2138) assigns its error to that
\* variable; every other error is returned from a variable of an inner scope.
DeleteCleanup(p) ==
  /\ call[p].pc = "del_cleanup"
  /\ LET f == call[p]
         ts == TS(p)
     IN  IF f.start.WorkflowType = "Migrate"
           THEN IF ksLock[ts.targetKeyspace] # "none"
                  THEN Ret(p, topo, f, "UNKNOWN", FALSE)
                  ELSE \/ Ret(p, finalizeMigrateWorkflow(topo, ts, TRUE, f.keepData),
                              [f EXCEPT !.unlockErr = "nil"], "nil", FALSE)
                       \/ Ret(p, topo, [f EXCEPT !.unlockErr = "nil"], "UNKNOWN", FALSE)
         ELSE IF ts.workflowType = "CreateLookupIndex"
           THEN Go(p, topo, [f EXCEPT !.pc = "del_streams"])
         ELSE \/ /\ ts.isMultiTenant /\ ~f.keepData
                 /\ Ret(p, topo, [f EXCEPT !.step = "deleteTenantData"], "UNKNOWN", FALSE)
              \/ LET a == IF ts.isMultiTenant /\ ~f.keepData THEN removeTables(topo, ts.tgt) ELSE topo
                 IN  IF ~KeyspaceLocksFree(ts)
                       THEN Ret(p, a, f, "UNKNOWN", FALSE)
                       ELSE \/ Go(p, dropTargets(a, ts, f.keepData, f.keepRules, 4),
                                  [f EXCEPT !.pc = "del_streams"])
                            \/ \E upto \in FailPoints :
                                 Ret(p, dropTargets(a, ts, f.keepData, f.keepRules, upto),
                                     [f EXCEPT !.step = "dropTargets",
                                               !.unlockErr = IF upto = 0 THEN "UNKNOWN" ELSE "nil"],
                                     "UNKNOWN", FALSE)

\* Lines 1624-1647: the stream rows are deleted on the target shards.
DeleteStreams(p) ==
  /\ call[p].pc = "del_streams"
  /\ LET f == call[p]
         ts == TS(p)
     IN  \/ Ret(p, dropTargetVReplicationStreams(topo, ts, Shards), f, "nil", TRUE)
         \/ \E shs \in {{}} :
              Ret(p, dropTargetVReplicationStreams(topo, ts, shs),
                  [f EXCEPT !.step = "del_streams"], "UNKNOWN", FALSE)

(***************************************************************************)
(* MoveTablesComplete.                                                     *)
(***************************************************************************)
\* Line 1419: the state is read before the lock is taken.
MoveTablesComplete(p) ==
  /\ call[p].pc = "idle"
  /\ kind # "lookup"
  /\ \E keepData \in BOOLEAN, keepRoutingRules \in BOOLEAN :
       LET f0 == [IdleFrame EXCEPT !.verb = "MoveTablesComplete", !.keepData = keepData,
                                   !.keepRules = keepRoutingRules, !.wf = WfName]
           ts == buildTrafficSwitcher(topo, WfName)
           state == getWorkflowState(topo, WfName)
       IN  IF ~WorkflowExists(topo, WfName)
             THEN Ret(p, topo, f0, "NOT_FOUND", FALSE)
             ELSE Go(p, topo, [f0 EXCEPT !.pc = "lockName", !.start = state, !.frozen = ts.frozen])

\* Lines 1424-1431.
CompleteLockName(p) ==
  /\ call[p].pc = "lockName"
  /\ call[p].verb = "MoveTablesComplete"
  /\ IF nameLock[call[p].wf] = "none"
       THEN /\ nameLock' = [nameLock EXCEPT ![call[p].wf] = p]
            /\ call' = [call EXCEPT ![p].pc = "cmp_cleanup"]
            /\ UNCHANGED <<fixed, topo, ksLock>>
       ELSE Ret(p, topo, call[p], "UNKNOWN", FALSE)

\* The test of line 1456.
FullySwitched(state) ==
  /\ state.WritesSwitched
  /\ state.ReplicaCellsNotSwitched = {}
  /\ state.RdonlyCellsNotSwitched = {}

\* Lines 1441-1477.
CompleteCleanup(p) ==
  /\ call[p].pc = "cmp_cleanup"
  /\ \E completed \in BOOLEAN :
       LET f == call[p]
           ts == TS(p)
       IN  IF f.start.WorkflowType = "Migrate"
             THEN IF ksLock[ts.targetKeyspace] # "none"
                    THEN Ret(p, topo, f, "UNKNOWN", FALSE)
                    ELSE \/ Ret(p, finalizeMigrateWorkflow(topo, ts, FALSE, f.keepData),
                                [f EXCEPT !.unlockErr = "nil"], "nil", TRUE)
                         \/ Ret(p, topo, [f EXCEPT !.unlockErr = "nil"], "UNKNOWN", FALSE)
           ELSE IF ~FullySwitched(f.start)
             THEN Ret(p, topo, f, ErrWorkflowCompleteNotFullySwitched, FALSE)
           ELSE IF ~KeyspaceLocksFree(ts)
             THEN Ret(p, topo, f, "UNKNOWN", FALSE)
           ELSE IF ~completed
             THEN Ret(p, topo, [f EXCEPT !.unlockErr = "nil"], "UNKNOWN", FALSE)
           ELSE \/ Ret(p, dropSources(topo, ts, f.keepData, f.keepRules, 3),
                       [f EXCEPT !.unlockErr = "nil"], "nil", TRUE)
                \/ \E upto \in FailPoints :
                     Ret(p, dropSources(topo, ts, f.keepData, f.keepRules, upto),
                         [f EXCEPT !.step = "dropSources", !.unlockErr = "nil"], "UNKNOWN", FALSE)

(***************************************************************************)
(* WorkflowMirrorTraffic.                                                  *)
(***************************************************************************)
\* The requests: every choice of tablet types with a percentage in range, and
\* percentages out of range for one tablet type.
MirrorRequests ==
  (((SUBSET TabletTypes) \ {{}}) \X {0, 50}) \cup ({{"RDONLY"}} \X {-5, 101})

\* The tablet types of the request whose traffic is already switched.
cannotSwitchTabletTypes(types, startState) ==
  {tt \in types : \/ tt = "RDONLY" /\ startState.RdonlyCellsSwitched # {}
                  \/ tt = "REPLICA" /\ startState.ReplicaCellsSwitched # {}
                  \/ tt = "PRIMARY" /\ startState.WritesSwitched}

\* A variant of the test of the workflow that lets a reverse workflow through.
mirrorTrafficInvalidUnlessReverse(ts, startState) ==
  \/ startState.WorkflowType # "MoveTables"
  \/ ts.migrationType # "TABLES"
  \/ ts.isPartialMigration
  \/ ts.isMultiTenant

\* Lines 3541-3555: "reject everything but basic MoveTables".
mirrorTrafficInvalid(ts, startState) ==
  \/ startState.WorkflowType # "MoveTables"
  \/ startState.IsReverse
  \/ ts.migrationType # "TABLES"
  \/ ts.isPartialMigration
  \/ ts.isMultiTenant

\* Lines 3532-3575: the request is checked against the workflow state; no
\* lock is taken.
WorkflowMirrorTraffic(p) ==
  /\ call[p].pc = "idle"
  /\ \E n \in WfNames, req \in MirrorRequests :
       LET types == req[1]
           percent == req[2]
           f0 == [IdleFrame EXCEPT !.verb = "WorkflowMirrorTraffic", !.wf = n]
           ts == buildTrafficSwitcher(topo, n)
           startState == getWorkflowState(topo, n)
       IN  IF ~WorkflowExists(topo, n)
             THEN Ret(p, topo, f0, "NOT_FOUND", FALSE)
           ELSE IF mirrorTrafficInvalid(ts, startState)
             THEN Ret(p, topo, f0, "INVALID_ARGUMENT", FALSE)
           ELSE IF cannotSwitchTabletTypes(types, startState) # {}
             THEN Ret(p, topo, f0, "FAILED_PRECONDITION", FALSE)
           ELSE Go(p, topo, [f0 EXCEPT !.pc = "mirrorTraffic", !.types = types,
                                      !.percent = percent, !.start = startState,
                                      !.frozen = ts.frozen])

\* mirrorTraffic, lines 3601-3621.
MirrorTraffic(p) ==
  /\ call[p].pc = "mirrorTraffic"
  /\ LET f == call[p]
     IN  \/ Ret(p, mirrorTableTraffic(topo, f.types, f.percent), f, "nil", TRUE)
         \/ Ret(p, topo, [f EXCEPT !.types = {}, !.percent = 0], "UNKNOWN", FALSE)

(***************************************************************************)
(* A caller of switchWrites that asks for the cancellation of the switch.  *)
(***************************************************************************)
SwitchWritesCancel(p) ==
  /\ call[p].pc = "idle"
  /\ kind \notin {"lookup", "migrate"}
  /\ WorkflowExists(topo, WfName)
  /\ LET ts == buildTrafficSwitcher(topo, WfName)
     IN  Go(p, topo, [IdleFrame EXCEPT !.verb = "switchWrites", !.pc = "switchWrites",
                        !.direction = "FORWARD", !.dir = "FORWARD", !.types = {"PRIMARY"},
                        !.cancel = TRUE, !.wf = WfName,
                        !.frozen = ts.frozen, !.start = getWorkflowState(topo, WfName)])

(***************************************************************************)
(* The create verbs: moveTablesCreate (lines 1033-1314) and ReshardCreate  *)
(* (lines 1481-1530).  The frame keeps in `pre` the topology the verb      *)
(* found, in `step` the call that failed and in `rolled` whether the       *)
(* deferred cleanup of moveTablesCreate ran.                               *)
(***************************************************************************)
\* The materializer and the resharder write one stream record per target
\* shard, stopped, after they deployed the schema of the tables there.
createWorkflowStreams(t, n, shs) ==
  [t EXCEPT !.streams[n] = [i \in Shards |->
               IF i \in shs THEN [state |-> "Stopped", message |-> ""] ELSE t.streams[n][i]],
            !.tables[TargetSide(n)] = TRUE]

\* The stopped streams of the workflow enter their copy phase.
startStreams(t, n) ==
  [t EXCEPT !.streams[n] = [i \in Shards |->
               IF t.streams[n][i].state = "Stopped"
                 THEN [t.streams[n][i] EXCEPT !.state = "Copying"] ELSE t.streams[n][i]]]

\* A variant of setupInitialRoutingRules without the keys that are
\* qualified by the target keyspace.
setupInitialRoutingRulesUnqualified(t, k, sourceKeyspace, targetKeyspace, noRoutingRules) ==
  IF noRoutingRules THEN t
  ELSE [t EXCEPT !.rules = [r \in RuleKeys |->
          IF r[2] \in Tables /\ r[1] # targetKeyspace THEN sourceKeyspace ELSE t.rules[r]]]

\* setupInitialRoutingRules, lines 1345-1405, for a request that passed
\* validateRoutingRuleFlags.  A partial migration gets its shard routing
\* rules and then goes on (there is no return after line 1364); a
\* multi-tenant migration gets keyspace routing rules and returns; every
\* other one reaches the table routing rules: the keys of each table of the
\* workflow, unqualified and qualified by either keyspace, for each tablet
\* type, are set in the rules read from the topology.
setupInitialRoutingRules(t, k, sourceKeyspace, targetKeyspace, noRoutingRules) ==
  IF noRoutingRules THEN t
  ELSE LET a == IF k = "partial"
                  THEN [t EXCEPT !.shardRules = [r \in Keyspaces \X Shards |->
                          IF r[1] = targetKeyspace THEN sourceKeyspace ELSE t.shardRules[r]]]
                  ELSE t
       IN  IF k = "multitenant"
             THEN [a EXCEPT !.ksRules = [r \in Keyspaces \X tabletTypeSuffixes |->
                     IF r[1] = sourceKeyspace THEN sourceKeyspace ELSE a.ksRules[r]]]
             ELSE [a EXCEPT !.rules = [r \in RuleKeys |->
                     IF r[2] \in Tables THEN sourceKeyspace ELSE a.rules[r]]]

\* setupInitialDeniedTables, lines 1328-1343: the tables are denied on the
\* target shards `shs` (all of them when the fan-out succeeds).
setupInitialDeniedTables(t, ts, shs) ==
  IF ts.migrationType # "TABLES" THEN t ELSE SetDenied(t, ts.tgt, shs, TRUE)

\* A variant of the steps below that starts the streams first.
moveTablesCreateSetupStartsFirst(t, ts, k, noRoutingRules, autoStart, upto, shs) ==
  LET a == IF upto >= 1 /\ autoStart THEN startStreams(t, ts.workflow) ELSE t
      b == IF upto >= 2 /\ k # "migrate"
             THEN setupInitialRoutingRules(a, k, ts.sourceKeyspace, ts.targetKeyspace,
                                           noRoutingRules)
             ELSE a
      c == IF upto >= 3 /\ k \notin {"partial", "multitenant"}
             THEN setupInitialDeniedTables(b, ts, shs) ELSE b
  IN  IF upto >= 4 THEN RebuildSrvVSchema(c, Cells) ELSE c

\* moveTablesCreate after it took its locks, lines 1252-1304, `upto` of its
\* steps done: the routing rules (not with an external topology), the
\* denied tables of a standard migration (on the shards `shs`), the rebuild
\* of the served vschema, the start of the streams.
moveTablesCreateSetup(t, ts, k, noRoutingRules, autoStart, upto, shs) ==
  LET a == IF upto >= 1 /\ k # "migrate"
             THEN setupInitialRoutingRules(t, k, ts.sourceKeyspace, ts.targetKeyspace,
                                           noRoutingRules)
             ELSE t
      b == IF upto >= 2 /\ k \notin {"partial", "multitenant"}
             THEN setupInitialDeniedTables(a, ts, shs) ELSE a
      c == IF upto >= 3 THEN RebuildSrvVSchema(b, Cells) ELSE b
  IN  IF upto >= 4 /\ autoStart THEN startStreams(c, ts.workflow) ELSE c

\* The deferred function of moveTablesCreate, lines 1234-1251, on an error.
\* origVSchema is allocated at line 1080, so it is never nil at line 1244,
\* but its Keyspace is only filled in for an unsharded target (line 1138):
\* for a sharded target the vschema that is saved back is an empty one,
\* which the topology stores (`stored`) or refuses.
moveTablesCreateCleanup(t, ts, k, orig, stored) ==
  LET a == IF k \notin {"partial", "multitenant"} THEN dropTargetDeniedTables(t, ts) ELSE t
      b == dropArtifacts(a, ts, FALSE)
  IN  IF ~orig.sharded THEN [b EXCEPT !.vschema = orig]
      ELSE IF stored THEN [b EXCEPT !.vschema = [sharded |-> FALSE, tables |-> {}]]
      ELSE b

\* moveTablesCreate up to buildTrafficSwitcher, lines 1033-1214: the vschema
\* of an unsharded target gets the tables and is saved (lines 1137-1149),
\* then the materializer creates the streams: it refuses a workflow that
\* exists already, or fails after the streams of some shards.  No lock is
\* held yet, and no deferred cleanup is in place.
MoveTablesCreate(p) ==
  /\ call[p].pc = "idle"
  /\ kind \in {"standard", "partial", "multitenant", "migrate"}
  /\ \E noRoutingRules \in BOOLEAN, autoStart \in BOOLEAN :
       LET f0 == [IdleFrame EXCEPT !.verb = "MoveTablesCreate", !.wf = WfName,
                    !.noRules = noRoutingRules, !.autoStart = autoStart, !.pre = topo]
           vs == IF topo.vschema.sharded THEN topo
                 ELSE [topo EXCEPT !.vschema.tables = @ \cup Tables]
       IN  \/ Ret(p, topo, [f0 EXCEPT !.step = "GetVSchema"], "UNKNOWN", FALSE)
           \/ /\ WorkflowExists(topo, WfName)
              /\ Ret(p, vs, [f0 EXCEPT !.step = "createWorkflowStreams"], "ALREADY_EXISTS", FALSE)
           \/ /\ ~WorkflowExists(topo, WfName)
              /\ \/ \E shs \in SomeShards :
                      Ret(p, createWorkflowStreams(vs, WfName, shs),
                          [f0 EXCEPT !.step = "createWorkflowStreams"], "UNKNOWN", FALSE)
                 \/ Ret(p, createWorkflowStreams(vs, WfName, Shards),
                        [f0 EXCEPT !.step = "buildTrafficSwitcher"], "UNKNOWN", FALSE)
                 \/ Go(p, createWorkflowStreams(vs, WfName, Shards),
                       [f0 EXCEPT !.pc = "mtc_lock"])

\* Lines 1217-1230: the named lock of the workflow, then the lock of the
\* target keyspace; a failure of either returns at once.
MoveTablesCreateLock(p) ==
  /\ call[p].pc = "mtc_lock"
  /\ LET f == call[p]
         ts == buildTrafficSwitcher(topo, f.wf)
     IN  \/ Ret(p, topo, [f EXCEPT !.step = "LockName"], "UNKNOWN", FALSE)
         \/ /\ nameLock[f.wf] = "none"
            /\ \/ Ret(p, topo, [f EXCEPT !.step = "LockKeyspace"], "UNKNOWN", FALSE)
               \/ /\ ksLock[ts.targetKeyspace] = "none"
                  /\ nameLock' = [nameLock EXCEPT ![f.wf] = p]
                  /\ ksLock' = [ksLock EXCEPT ![ts.targetKeyspace] = p]
                  /\ call' = [call EXCEPT ![p] = [f EXCEPT !.pc = "mtc_setup"]]
                  /\ UNCHANGED <<fixed, topo>>

\* A variant of checkIfPreviousJournalExists in which a journal found on
\* any source shard counts.
checkIfPreviousJournalExistsOnAny(t, ts, last) ==
  \E i \in Shards : HasJournal(t, ts.src, i, ts.id)

\* checkIfPreviousJournalExists, lines 2000-2027.  The closures that
\* forAllShards runs concurrently, one per source shard, all assign the one
\* variable `exists` of the function (line 2015) without holding the mutex:
\* what the function returns is what the closure of the shard `last`, the
\* last to write, found on its own shard.
checkIfPreviousJournalExists(t, ts, last) == HasJournal(t, ts.src, last, ts.id)

\* Lines 1232-1314 under the two locks and the deferred cleanup: a failure
\* after any of the steps, a journal left by an earlier migration (lines
\* 1285-1298) or routing rule flags that do not fit the migration (line
\* 1346) end the verb through the cleanup.
MoveTablesCreateSetup(p) ==
  /\ call[p].pc = "mtc_setup"
  /\ \E last \in Shards :
     LET f == call[p]
         ts == buildTrafficSwitcher(topo, f.wf)
         flagsInvalid == kind = "multitenant" /\ f.noRules
         journalExists == kind # "migrate" /\ checkIfPreviousJournalExists(topo, ts, last)
         fail(upto, shs, step, code) ==
           \E stored \in BOOLEAN :
             Ret(p, moveTablesCreateCleanup(
                      moveTablesCreateSetup(topo, ts, kind, f.noRules, f.autoStart, upto, shs),
                      ts, kind, f.pre.vschema, stored),
                 [f EXCEPT !.rolled = TRUE, !.step = step], code, FALSE)
     IN  \/ /\ flagsInvalid
            /\ fail(0, {}, "setupInitialRoutingRules", "FAILED_PRECONDITION")
         \/ /\ ~flagsInvalid
            /\ \/ fail(0, {}, "setupInitialRoutingRules", "UNKNOWN")
               \/ \E shs \in SomeShards : fail(2, shs, "setupInitialDeniedTables", "UNKNOWN")
               \/ fail(2, Shards, "RebuildSrvVSchema", "UNKNOWN")
               \/ /\ journalExists
                  /\ fail(3, Shards, "checkIfPreviousJournalExists", "INTERNAL")
               \/ /\ ~journalExists
                  /\ \/ fail(3, Shards, "startStreams", "UNKNOWN")
                     \/ fail(4, Shards, "WorkflowStatus", "UNKNOWN")
                     \/ Ret(p, moveTablesCreateSetup(topo, ts, kind, f.noRules, f.autoStart,
                                                     4, Shards),
                            f, "nil", TRUE)

\* ReshardCreate, lines 1481-1530: the resharder is built (it refuses a
\* workflow that exists already), copies the schema, creates the streams and
\* starts them.  The verb takes no lock and has no deferred cleanup.
ReshardCreate(p) ==
  /\ call[p].pc = "idle"
  /\ kind = "reshard"
  /\ \E autoStart \in BOOLEAN :
       LET f0 == [IdleFrame EXCEPT !.verb = "ReshardCreate", !.wf = WfName,
                    !.autoStart = autoStart, !.pre = topo]
           all == createWorkflowStreams(topo, WfName, Shards)
       IN  \/ Ret(p, topo, [f0 EXCEPT !.step = "ValidateSrvKeyspace"], "UNKNOWN", FALSE)
           \/ /\ WorkflowExists(topo, WfName)
              /\ Ret(p, topo, [f0 EXCEPT !.step = "buildResharder"], "ALREADY_EXISTS", FALSE)
           \/ /\ ~WorkflowExists(topo, WfName)
              /\ \/ \E shs \in SomeShards :
                      Ret(p, createWorkflowStreams(topo, WfName, shs),
                          [f0 EXCEPT !.step = "createStreams"], "UNKNOWN", FALSE)
                 \/ /\ autoStart
                    /\ Ret(p, all, [f0 EXCEPT !.step = "startStreams"], "UNKNOWN", FALSE)
                 \/ Ret(p, IF autoStart THEN startStreams(all, WfName) ELSE all, f0, "nil", TRUE)

\* The topology a workflow of kind k starts from: what its create verb
\* leaves, with its streams started.
InitialTopo(k) ==
  IF k \in {"lookup", "reshard"}
    THEN startStreams(createWorkflowStreams(EmptyTopo(k), WfName, Shards), WfName)
    ELSE moveTablesCreateSetup(
           [createWorkflowStreams(EmptyTopo(k), WfName, Shards) EXCEPT !.vschema.tables = Tables],
           buildTrafficSwitcher(createWorkflowStreams(EmptyTopo(k), WfName, Shards), WfName),
           k, FALSE, TRUE, 4, Shards)

(***************************************************************************)
(* The caller and the environment.                                         *)
(***************************************************************************)
\* The caller has seen the result; the process is free for the next verb.
Return(p) ==
  /\ call[p].pc = "done"
  /\ call' = [call EXCEPT ![p] = IdleFrame]
  /\ UNCHANGED <<fixed, topo, nameLock, ksLock>>

\* The streams are observed to change state between the verbs and before a
\* verb validates them.
QuietPoint == \A p \in Procs : call[p].pc \in {"idle", "canSwitch"}

SetStream(n, i, st) ==
  /\ QuietPoint
  /\ topo' = [topo EXCEPT !.streams[n][i].state = st]
  /\ UNCHANGED <<fixed, nameLock, ksLock, call>>

\* The streams of a workflow finish their copy phase.
StreamCopied(n) ==
  /\ QuietPoint
  /\ \E i \in Shards : topo.streams[n][i].state = "Copying"
  /\ topo' = [topo EXCEPT !.streams[n] = [i \in Shards |->
                 IF topo.streams[n][i].state = "Copying"
                   THEN [topo.streams[n][i] EXCEPT !.state = "Running"]
                   ELSE topo.streams[n][i]]]
  /\ UNCHANGED <<fixed, nameLock, ksLock, call>>

\* A running stream hits an error (one stream at a time; the environment
\* picks the one of the first shard), or recovers.
StreamError(n, i) ==
  /\ topo.streams[n][i].state = "Running"
  /\ topo.streams[n][i].message # Frozen
  /\ \A m \in WfNames, j \in Shards : topo.streams[m][j].state # "Error"
  /\ SetStream(n, i, "Error")

StreamRetry(n, i) ==
  /\ topo.streams[n][i].state = "Error"
  /\ SetStream(n, i, "Running")

\* The steps that begin with a check of the keyspace locks: a lock lost
\* earlier is noticed there.
ConfirmingSteps ==
  {"sr_switch", "sw_waitForCatchup", "sw_migrateStreams", "sw_resetSequences",
   "sw_createReverse", "sw_initSequences", "sw_createJournals"}

\* The TTL of the keyspace locks of a verb runs out while it is still at work.
KeyspaceLocksExpire(p) ==
  /\ call[p].pc \in ConfirmingSteps
  /\ \E k \in Keyspaces : ksLock[k] = p
  /\ ksLock' = [k \in Keyspaces |-> IF ksLock[k] = p THEN "none" ELSE ksLock[k]]
  /\ UNCHANGED <<fixed, topo, nameLock, call>>


Init ==
  /\ kind \in Kinds
  /\ nameLock = [n \in WfNames |-> "none"]
  /\ ksLock = [k \in Keyspaces |-> "none"]
  /\ call = [p \in Procs |-> IdleFrame]
  /\ topo = InitialTopo(kind)
  /\ sem = NoSem /\ jobs = NoJobs /\ vtbackup = <<>> /\ build = <<>> /\ reads = <<>> /\ probe = <<>>

SwitchTrafficStep(p) ==
  \/ SwitchTrafficLockName(p)
  \/ SwitchTrafficCanSwitch(p)
  \/ SwitchReadsEnter(p)
  \/ SwitchReadsMirror(p)
  \/ SwitchReadsSwitch(p)
  \/ SwitchWritesEnter(p)
  \/ SwitchWritesLockSource(p)
  \/ SwitchWritesLockTarget(p)
  \/ SwitchWritesMirror(p)
  \/ SwitchWritesCheckJournals(p)
  \/ SwitchWritesStopSourceWrites(p)
  \/ SwitchWritesStopStreams(p)
  \/ SwitchWritesLockTables(p)
  \/ SwitchWritesGatherSourcePositions(p)
  \/ SwitchWritesWaitForCatchup(p)
  \/ SwitchWritesMigrateStreams(p)
  \/ SwitchWritesResetSequences(p)
  \/ SwitchWritesCreateReverse(p)
  \/ SwitchWritesInitSequences(p)
  \/ SwitchWritesCreateJournals(p)
  \/ SwitchWritesAllowTargetWrites(p)
  \/ SwitchWritesChangeRouting(p)
  \/ SwitchWritesFinalize(p)
  \/ SwitchWritesStartReverse(p)
  \/ SwitchWritesFreeze(p)
  \/ SwitchTrafficFinish(p)

Environment ==
  \/ \E n \in WfNames : StreamCopied(n)
  \/ \E n \in WfNames : StreamError(n, 1) \/ StreamRetry(n, 1)
  \/ \E p \in Procs : KeyspaceLocksExpire(p)

Next ==
  \/ \E p \in Procs :
       \/ WorkflowSwitchTraffic(p)
       \/ SwitchTrafficStep(p)
       \/ WorkflowDelete(p)
       \/ DeleteLockName(p)
       \/ DeleteCleanup(p)
       \/ DeleteStreams(p)
       \/ MoveTablesComplete(p)
       \/ CompleteLockName(p)
       \/ CompleteCleanup(p)
       \/ Return(p)
  \/ Environment

Spec == Init /\ [][Next]_vars

\* Traffic switching with mirror rules and with a caller that cancels
\* switchWrites.
NextCancel ==
  \/ \E p \in Procs :
       \/ WorkflowSwitchTraffic(p)
       \/ SwitchTrafficStep(p)
       \/ SwitchWritesCancel(p)
       \/ WorkflowMirrorTraffic(p)
       \/ MirrorTraffic(p)
       \/ Return(p)
  \/ \E n \in WfNames : StreamCopied(n)

SpecCancel == Init /\ [][NextCancel]_vars

\* The create verbs, from a topology without the workflow: the target
\* keyspace is sharded or not, another table has routing rules and a vschema
\* entry or not, an earlier migration left its journal on some of the source
\* shards.
InitCreate ==
  /\ kind \in Kinds \ {"lookup"}
  /\ \E sharded \in BOOLEAN, other \in BOOLEAN, journaled \in SUBSET Shards :
       LET e == EmptyTopo(kind)
           r == [k \in RuleKeys |->
                   IF other /\ k[2] \in OtherTables /\ k[1] # "ks1" THEN "ks2" ELSE "none"]
           id == buildTrafficSwitcher(e, WfName).id
       IN  topo = [e EXCEPT !.vschema = [sharded |-> sharded,
                                         tables |-> IF other THEN OtherTables ELSE {}],
                            !.rules = r,
                            !.srvRules = [c \in Cells |-> r],
                            !.journals["S"] = [i \in Shards |->
                                                 IF i \in journaled THEN <<id>> ELSE <<>>]]
  /\ nameLock = [n \in WfNames |-> "none"]
  /\ ksLock = [k \in Keyspaces |-> "none"]
  /\ call = [p \in Procs |-> IdleFrame]
  /\ sem = NoSem /\ jobs = NoJobs /\ vtbackup = <<>> /\ build = <<>> /\ reads = <<>> /\ probe = <<>>

NextCreate ==
  \E p \in Procs :
    \/ MoveTablesCreate(p)
    \/ MoveTablesCreateLock(p)
    \/ MoveTablesCreateSetup(p)
    \/ ReshardCreate(p)
    \/ Return(p)

SpecCreate == InitCreate /\ [][NextCreate]_vars

(***************************************************************************)
(* optimizeCopyStateTable, lines 2055-2092, and the goroutines it starts.  *)
(* jobs counts the goroutines at their first statement (optimize table),   *)
(* at their second (alter table), the ones that ended and the calls that   *)
(* started none.                                                           *)
(***************************************************************************)
\* The workflow verbs are at rest.
WorkflowsAtRest ==
  /\ kind = "standard"
  /\ nameLock = [n \in WfNames |-> "none"]
  /\ ksLock = [k \in Keyspaces |-> "none"]
  /\ call = [p \in Procs |-> IdleFrame]
  /\ topo = InitialTopo("standard")
  /\ reads = <<>>
  /\ probe = <<>>

\* The deferred function of the goroutine, lines 2064-2068.
releasePermit(s) == IF s.nil THEN s ELSE [s EXCEPT !.cur = @ - 1]

\* Lines 2056-2063: without a semaphore, or with a free permit, a goroutine
\* is started; otherwise the call returns.
optimizeCopyStateTable ==
  /\ jobs.optimize + jobs.reset + jobs.ended + jobs.deferred < MaxCalls
  /\ IF ~sem.nil /\ sem.cur >= sem.size
       THEN /\ jobs' = [jobs EXCEPT !.deferred = @ + 1]
            /\ sem' = sem
       ELSE /\ jobs' = [jobs EXCEPT !.optimize = @ + 1]
            /\ sem' = IF sem.nil THEN sem ELSE [sem EXCEPT !.cur = @ + 1]
  /\ UNCHANGED <<kind, topo, nameLock, ksLock, call, vtbackup, build, reads, probe>>

\* A variant of OptimizeTable whose goroutine keeps its permit when the
\* table does not exist.
OptimizeTableKeepsPermit ==
  /\ jobs.optimize > 0
  /\ \/ /\ jobs' = [jobs EXCEPT !.optimize = @ - 1, !.ended = @ + 1]
        /\ sem' = sem
     \/ /\ jobs' = [jobs EXCEPT !.optimize = @ - 1, !.reset = @ + 1]
        /\ sem' = sem
  /\ UNCHANGED <<kind, topo, nameLock, ksLock, call, vtbackup, build, reads, probe>>

\* Lines 2069-2080: "optimize table" fails because the table does not exist
\* and the goroutine returns, or it succeeds or fails otherwise (an RPC
\* error, the timeout of the context) and the goroutine goes on.
OptimizeTable ==
  /\ jobs.optimize > 0
  /\ \/ /\ jobs' = [jobs EXCEPT !.optimize = @ - 1, !.ended = @ + 1]
        /\ sem' = releasePermit(sem)
     \/ /\ jobs' = [jobs EXCEPT !.optimize = @ - 1, !.reset = @ + 1]
        /\ sem' = sem
  /\ UNCHANGED <<kind, topo, nameLock, ksLock, call, vtbackup, build, reads, probe>>

\* Lines 2081-2091: "alter table" succeeds or fails; the goroutine ends.
ResetAutoInc ==
  /\ jobs.reset > 0
  /\ jobs' = [jobs EXCEPT !.reset = @ - 1, !.ended = @ + 1]
  /\ sem' = releasePermit(sem)
  /\ UNCHANGED <<kind, topo, nameLock, ksLock, call, vtbackup, build, reads, probe>>

\* The server has no semaphore, or one of a configured capacity.
InitOptimize ==
  /\ WorkflowsAtRest
  /\ sem \in {NoSem} \cup {[nil |-> FALSE, size |-> n, cur |-> 0] : n \in 1..2}
  /\ jobs = NoJobs
  /\ vtbackup = <<>> /\ build = <<>>

NextOptimize == optimizeCopyStateTable \/ OptimizeTable \/ ResetAutoInc

SpecOptimize == InitOptimize /\ [][NextOptimize]_vars

(***************************************************************************)
(* pruneBackups of the backup job, part_002 lines 750-790.  A backup is    *)
(* its age, time.Since(backupTime); ListBackups returns the backups        *)
(* oldest first.  vtbackup.listed is the storage before the call,          *)
(* vtbackup.backups the storage now.                                       *)
(***************************************************************************)
\* The loop of lines 767-789 at the backup i of the listing, numBackups
\* left; RemoveBackup fails at the backup `fails`.  The result is how many
\* backups were removed, and the error.
RECURSIVE pruneLoop(_, _, _, _, _, _)
pruneLoop(backups, i, numBackups, retentionTime, retentionCount, fails) ==
  IF i > Len(backups) THEN [removed |-> i - 1, err |-> "nil"]
  ELSE IF backups[i] < retentionTime THEN [removed |-> i - 1, err |-> "nil"]
  ELSE IF i = fails THEN [removed |-> i - 1, err |-> "couldn't remove backup"]
  ELSE IF numBackups - 1 = retentionCount THEN [removed |-> i, err |-> "nil"]
  ELSE pruneLoop(backups, i + 1, numBackups - 1, retentionTime, retentionCount, fails)

\* A variant of pruneBackups that also prunes when the backups are exactly
\* as many as the retention count.
pruneBackupsAtCount(backups, retentionTime, retentionCount, fails) ==
  IF retentionTime = 0 THEN [removed |-> 0, err |-> "nil"]
  ELSE IF Len(backups) < retentionCount THEN [removed |-> 0, err |-> "nil"]
  ELSE pruneLoop(backups, 1, Len(backups), retentionTime, retentionCount, fails)

\* pruneBackups, lines 750-790.
pruneBackups(backups, retentionTime, retentionCount, fails) ==
  IF retentionTime = 0 THEN [removed |-> 0, err |-> "nil"]
  ELSE IF Len(backups) <= retentionCount THEN [removed |-> 0, err |-> "nil"]
  ELSE pruneLoop(backups, 1, Len(backups), retentionTime, retentionCount, fails)

\* The call of pruneBackups, line 301: the listing fails, or the backups
\* are pruned, with or without a removal that fails.
PruneBackups ==
  /\ vtbackup.pc = "prune"
  /\ \/ vtbackup' = [vtbackup EXCEPT !.pc = "done", !.err = "can't list backups"]
     \/ \E fails \in 0..Len(vtbackup.backups) :
          LET r == pruneBackups(vtbackup.backups, vtbackup.minRetentionTime,
                                vtbackup.minRetentionCount, fails)
          IN  vtbackup' = [vtbackup EXCEPT
                             !.pc = "done", !.err = r.err,
                             !.backups = SubSeq(@, r.removed + 1, Len(@))]
  /\ UNCHANGED <<kind, topo, nameLock, ksLock, call, sem, jobs, build, reads, probe>>

\* The flags (min_retention_count is at least 1, line 261) and the backups
\* in the storage, oldest first.
InitPrune ==
  /\ WorkflowsAtRest
  /\ sem = NoSem /\ jobs = NoJobs /\ build = <<>>
  /\ \E n \in 0..MaxBackups, retentionTime \in -1..2, retentionCount \in 1..2 :
       \E b \in [1..n -> 0..MaxAge] :
         /\ \A i \in 1..n, j \in 1..n : i <= j => b[i] >= b[j]
         /\ vtbackup = [pc |-> "prune", err |-> "", listed |-> b, backups |-> b,
                        minRetentionTime |-> retentionTime,
                        minRetentionCount |-> retentionCount]

SpecPrune == InitPrune /\ [][PruneBackups]_vars

(***************************************************************************)
(* Where the traffic of the workflow "wf" really goes, read off the        *)
(* routing state itself rather than off getWorkflowState.                  *)
(***************************************************************************)
PrimaryRoutedToTarget(t) ==
  CASE kind = "standard" -> \E tb \in Tables : t.rules[<<"ks1", tb, primaryTabletSuffix>>] = "ks2"
    [] kind = "partial" -> \E i \in Shards : t.shardRules[<<"ks1", i>>] = "ks2"
    [] kind = "multitenant" -> t.ksRules[<<"ks1", primaryTabletSuffix>>] = "ks2"
    [] kind = "reshard" -> ~t.serving["S"]
    [] OTHER -> FALSE

ReadsRoutedToTarget(t) ==
  CASE kind = "standard" ->
         \A c \in Cells, tb \in Tables, sfx \in {replicaTabletSuffix, rdonlyTabletSuffix} :
           t.srvRules[c][<<"ks1", tb, sfx>>] = "ks2"
    [] kind = "partial" -> \A i \in Shards : t.shardRules[<<"ks1", i>>] = "ks2"
    [] kind = "multitenant" ->
         \A sfx \in {replicaTabletSuffix, rdonlyTabletSuffix} : t.ksRules[<<"ks1", sfx>>] = "ks2"
    [] kind = "reshard" -> \A c \in Cells, tt \in RoTypes : t.partition[c][tt].refs = "T"
    [] OTHER -> FALSE

AllTrafficRoutedToTarget(t) == PrimaryRoutedToTarget(t) /\ ReadsRoutedToTarget(t)

(***************************************************************************)
(* Properties of WorkflowSwitchTraffic, WorkflowDelete, MoveTablesComplete. *)
(***************************************************************************)
\* C1: a WorkflowSwitchTraffic call with a timeout shorter than one second
\* returns INVALID_ARGUMENT, never a nil error with a nil response, and has
\* changed nothing.
C1_ShortTimeoutIsInvalidArgument ==
  \A p \in Procs :
    (/\ call[p].pc = "done" /\ call[p].verb = "WorkflowSwitchTraffic"
     /\ call[p].timeout # Unset /\ call[p].timeout < 1000)
    => /\ call[p].code = "INVALID_ARGUMENT"
       /\ ~(call[p].code = "nil" /\ ~call[p].resp)
       /\ call[p].dirty = {}

\* C2: WorkflowDelete of a workflow that is not a CreateLookupIndex one goes
\* on to its cleanup only when the write traffic is not switched, and when it
\* returns ErrWorkflowDeleteWritesSwitched the writes are switched and it has
\* changed nothing.
C2_DeleteRefusedWhenWritesSwitched ==
  \A p \in Procs :
    (call[p].verb = "WorkflowDelete" /\ kind # "lookup")
    => /\ call[p].pc = "lockName" => ~PrimaryRoutedToTarget(topo)
       /\ (call[p].pc = "done" /\ call[p].code = ErrWorkflowDeleteWritesSwitched)
            => (PrimaryRoutedToTarget(topo) /\ call[p].dirty = {})

\* C3: MoveTablesComplete of a MoveTables (standard, partial, multi-tenant)
\* or Reshard workflow goes on to drop the sources only when all traffic is
\* switched, and returns ErrWorkflowCompleteNotFullySwitched, having changed
\* nothing, only when some traffic is not switched.
C3_CompleteIffFullySwitched ==
  \A p \in Procs :
    (call[p].verb = "MoveTablesComplete" /\ kind \notin {"migrate", "lookup"})
    => /\ (call[p].pc = "cmp_cleanup" /\ FullySwitched(call[p].start))
            => AllTrafficRoutedToTarget(topo)
       /\ (call[p].pc = "done" /\ call[p].code = ErrWorkflowCompleteNotFullySwitched)
            => (~AllTrafficRoutedToTarget(topo) /\ call[p].dirty = {})

(***************************************************************************)
(* Properties of the validation gate.                                      *)
(***************************************************************************)
\* C4 (as stated): whenever a stream of the workflow is Copying, in Error or
\* FROZEN, WorkflowSwitchTraffic changes no state, whatever the direction and
\* the tablet types.
C4_BlockedWorkflowNeverChanged ==
  \A p \in Procs :
    (call[p].verb = "WorkflowSwitchTraffic" /\ call[p].blocked) => call[p].dirty = {}

\* C4 (amended): nothing is changed before the gate; and when the writes are
\* not already switched in the requested direction, a workflow with a stream
\* that is Copying, in Error or FROZEN makes the call fail at the gate without
\* any change, with FAILED_PRECONDITION when the gate could read the workflow.
C4_GateRefusesBlockedWorkflow ==
  \A p \in Procs :
    call[p].verb = "WorkflowSwitchTraffic"
    => /\ call[p].pc \in {"lockName", "canSwitch"} => call[p].dirty = {}
       /\ (call[p].blocked /\ ~call[p].wrAlready)
            => /\ call[p].pc = "done"
               /\ call[p].dirty = {}
               /\ \/ call[p].gate = "refused" /\ call[p].code = "FAILED_PRECONDITION"
                  \/ call[p].gate = "failed" /\ call[p].code # "nil"

C4_Witness ==
  \E p \in Procs :
    /\ call[p].verb = "WorkflowSwitchTraffic" /\ call[p].pc = "done"
    /\ call[p].blocked /\ ~call[p].wrAlready
    /\ call[p].gate = "refused" /\ call[p].reason = cannotSwitchError

\* C5: a forward WorkflowSwitchTraffic on a workflow whose writes are not
\* switched passes through the gate; a lag strictly greater than the allowed
\* one (30 s when the request sets none) makes it return FAILED_PRECONDITION
\* with the high-lag reason naming both lags, without any change; a lag equal
\* to the allowed one is not refused for its lag.
C5_LagGate ==
  \A p \in Procs :
    (call[p].verb = "WorkflowSwitchTraffic" /\ call[p].direction = "FORWARD" /\ ~call[p].wrAlready)
    => /\ call[p].gate # "skipped"
       /\ call[p].gate \in {"refused", "passed"}
            => LET limit == IF call[p].maxLag = Unset THEN 30000 ELSE call[p].maxLag
               IN  /\ call[p].lag * 1000 > limit
                        => /\ call[p].pc = "done" /\ call[p].gate = "refused"
                           /\ call[p].code = "FAILED_PRECONDITION"
                           /\ call[p].reason = cannotSwitchHighLag
                           /\ call[p].allowed = limit \div 1000
                           /\ call[p].dirty = {}
                   /\ call[p].reason = cannotSwitchHighLag => call[p].lag * 1000 > limit

C5_Witness ==
  \E p \in Procs :
    /\ call[p].verb = "WorkflowSwitchTraffic" /\ call[p].pc = "done"
    /\ call[p].direction = "FORWARD" /\ ~call[p].wrAlready
    /\ call[p].reason = cannotSwitchHighLag
    /\ call[p].maxLag = Unset /\ call[p].lag > 30

(***************************************************************************)
(* Properties of switchWrites.                                             *)
(***************************************************************************)
\* The steps of switchWrites between stopping the source writes and the
\* creation of the journals.
PreJournalSteps ==
  {"sw_stopStreams", "sw_lockTables", "sw_gatherSourcePositions", "sw_waitForCatchup",
   "sw_migrateStreams", "sw_resetSequences", "sw_createReverse", "sw_initSequences"}

\* C6: a switchWrites that stopped the source writes and then ended with an
\* error before the journals were created has invoked the rollback, and the
\* denied-table entries of the source shards are what they were before it.
C6_RollbackRestoresDeniedTables ==
  \A p \in Procs :
    (/\ call[p].pc = "done" /\ call[p].code # "nil"
     /\ call[p].stopped /\ ~call[p].jExist
     /\ \/ call[p].step \in PreJournalSteps
        \/ call[p].step = "sw_createJournals" /\ call[p].reason = "locks were lost")
    => /\ call[p].rolled
       /\ {i \in Shards : topo.denied[TS(p).src][i]} = call[p].preDenied

\* The positions of switchWrites before the journals are created.
PreJournalPositions == PreJournalSteps \cup {"sw_stopSourceWrites"}

JournalCount(js, id) == Cardinality({k \in 1..Len(js) : js[k] = id})

AllTargetsFrozen(t, n) == \A i \in Shards : t.streams[n][i].message = Frozen

\* C8: a WorkflowSwitchTraffic that asks for the primary and finds the
\* journals of its migration id (an earlier run stopped after creating them)
\* is not refused by the validation gate; and when such a resumed run
\* succeeds, the writes are routed to the target, the target accepts writes
\* and the target workflow is FROZEN.
C8_ResumedSwitchNotRefused ==
  \A p \in Procs :
    (call[p].verb = "WorkflowSwitchTraffic" /\ call[p].pc = "done")
    => /\ (call[p].gate = "refused" /\ "PRIMARY" \in call[p].types)
            => checkJournals(topo, TS(p)) = {}
       /\ (call[p].code = "nil" /\ call[p].jExist)
            => /\ AllTargetsFrozen(topo, TS(p).workflow)
               /\ \A i \in Shards : ~topo.denied[TS(p).tgt][i]

\* C9: after a successful switchWrites, resumed or not, each source shard
\* holds exactly one journal row with the migration id of the traffic
\* switcher (HashStreams of the target keyspace and its target shards); and
\* no shard ever holds two rows of one id.
C9_OneJournalPerSourceShard ==
  /\ \A p \in Procs :
       (/\ call[p].verb = "WorkflowSwitchTraffic" /\ call[p].pc = "done"
        /\ call[p].code = "nil" /\ (call[p].stopped \/ call[p].jExist))
       => \A i \in Shards :
            JournalCount(topo.journals[TS(p).src][i],
                         HashStreams(TS(p).targetKeyspace, ShardNames(TS(p).tgt))) = 1
  /\ \A sd \in Sides, i \in Shards :
       \A k \in 1..Len(topo.journals[sd][i]) :
         JournalCount(topo.journals[sd][i], topo.journals[sd][i][k]) = 1

\* A resumed run has succeeded.
C9_Witness ==
  \E p \in Procs :
    /\ call[p].verb = "WorkflowSwitchTraffic" /\ call[p].pc = "done"
    /\ call[p].code = "nil" /\ call[p].jExist
    /\ \A i \in Shards : JournalCount(topo.journals[TS(p).src][i], TS(p).id) = 1

C11_MultiTenantReverseWritesRefused ==
  \A p \in Procs :
    (/\ call[p].verb = "WorkflowSwitchTraffic" /\ kind = "multitenant"
     /\ call[p].direction = "BACKWARD")
    => /\ call[p].pc # "done"
            => /\ "PRIMARY" \notin call[p].types
               /\ ~KeyspaceSwitched(topo, "ks1", "ks2", primaryTabletSuffix)
       /\ (/\ call[p].pc = "done" /\ WorkflowExists(topo, WfName)
           /\ \/ "PRIMARY" \in call[p].types
              \/ KeyspaceSwitched(topo, "ks1", "ks2", primaryTabletSuffix))
            => /\ call[p].code = "INVALID_ARGUMENT"
               /\ call[p].wf = <<>> /\ call[p].gate = ""
               /\ call[p].dirty = {}
               /\ \A n \in WfNames : nameLock[n] # p
               /\ \A k \in Keyspaces : ksLock[k] # p

\* The writes are switched and the request names the read-only types only.
C11_Witness ==
  \E p \in Procs :
    /\ call[p].verb = "WorkflowSwitchTraffic" /\ kind = "multitenant"
    /\ call[p].direction = "BACKWARD" /\ call[p].pc = "done"
    /\ call[p].types = RoTypes
    /\ KeyspaceSwitched(topo, "ks1", "ks2", primaryTabletSuffix)
    /\ call[p].code = "INVALID_ARGUMENT"

(***************************************************************************)
(* Properties of WorkflowMirrorTraffic.                                    *)
(***************************************************************************)
\* The workflow a mirror request names is not a basic MoveTables workflow:
\* read off the kind of the workflow and the name, not off the switcher.
NotBasicMoveTables(n) == kind # "standard" \/ HasReverseSuffix(n)

\* C12: WorkflowMirrorTraffic on an existing workflow that is not a MoveTables
\* workflow, is a reverse workflow, is not a TABLES migration, is a partial or
\* a multi-tenant migration returns INVALID_ARGUMENT and has changed nothing,
\* the mirror rules included; it never gets to mirrorTraffic.
C12_MirrorOnlyBasicMoveTables ==
  \A p \in Procs :
    (/\ call[p].verb = "WorkflowMirrorTraffic"
     /\ WorkflowExists(topo, call[p].wf) /\ NotBasicMoveTables(call[p].wf))
    => /\ call[p].pc = "done"
       /\ call[p].code = "INVALID_ARGUMENT"
       /\ call[p].dirty = {}

\* A mirror request on the reverse workflow of a standard MoveTables.
C12_Witness ==
  \E p \in Procs :
    /\ call[p].verb = "WorkflowMirrorTraffic" /\ call[p].pc = "done"
    /\ kind = "standard" /\ HasReverseSuffix(call[p].wf)
    /\ WorkflowExists(topo, call[p].wf)
    /\ call[p].code = "INVALID_ARGUMENT"

\* Traffic of some tablet type of the workflow "wf" is switched to the target.
SomeTrafficSwitched(t) ==
  LET st == getWorkflowState(t, WfName)
  IN  st.WritesSwitched \/ st.ReplicaCellsSwitched # {} \/ st.RdonlyCellsSwitched # {}

\* C13: WorkflowMirrorTraffic on a basic MoveTables workflow gets to
\* mirrorTraffic only when no traffic of any tablet type is switched, and when
\* some traffic is switched it returns FAILED_PRECONDITION without having
\* changed a mirror rule, whichever tablet types the request names.
C13_MirrorRefusedWhenAnySwitched ==
  \A p \in Procs :
    (/\ call[p].verb = "WorkflowMirrorTraffic" /\ kind = "standard"
     /\ call[p].wf = WfName /\ WorkflowExists(topo, WfName)
     /\ SomeTrafficSwitched(topo))
    => /\ call[p].pc = "done"
       /\ call[p].code = "FAILED_PRECONDITION"
       /\ call[p].dirty = {}

\* C14: every stored mirror rule has a percentage in 1..100 (a rule of
\* percentage 0 is never stored); a successful mirror request of percent 0
\* leaves no rule for its tablet types, one within 1..100 stores its
\* percentage, and one outside 0..100 never stores the requested value.
C14_MirrorPercentInRange ==
  /\ \A tt \in TabletTypes : topo.mirror[tt] = NoMirrorRule \/ topo.mirror[tt] \in 1..100
  /\ \A p \in Procs :
       (call[p].verb = "WorkflowMirrorTraffic" /\ call[p].pc = "done" /\ call[p].code = "nil")
       => \A tt \in call[p].types :
            /\ call[p].percent = 0 => topo.mirror[tt] = NoMirrorRule
            /\ call[p].percent \in 1..100 => topo.mirror[tt] = call[p].percent
            /\ call[p].percent \notin 0..100 => topo.mirror[tt] # call[p].percent

\* A request of 101 percent has stored a rule of 100 percent.
C14_Witness ==
  \E p \in Procs :
    /\ call[p].verb = "WorkflowMirrorTraffic" /\ call[p].pc = "done" /\ call[p].code = "nil"
    /\ call[p].percent = 101
    /\ \E tt \in call[p].types : topo.mirror[tt] = 100

(***************************************************************************)
(* The create verbs and their cleanup.                                     *)
(***************************************************************************)
\* The artifacts of a workflow among the parts of the topology.
ArtifactFields == {"vschema", "streams", "rules", "shardRules", "ksRules", "denied"}

\* C15: a create verb that returns an error after it installed at least one
\* artifact (a vschema edit, stream records, routing rules, denied tables)
\* has run its cleanup before it returned.
C15_FailedCreateRunsCleanup ==
  \A p \in Procs :
    (/\ call[p].verb \in {"MoveTablesCreate", "ReshardCreate"}
     /\ call[p].pc = "done"
     /\ call[p].code # "nil"
     /\ call[p].dirty \cap ArtifactFields # {})
    => call[p].rolled

\* C16: when MoveTablesCreate returns an error after stream records were
\* created, the vschema of the target keyspace is the one the verb found,
\* no stream of the workflow is left on any target shard and no table is
\* denied on a target shard, so that the same request can be run again.
C16_FailedMoveTablesCreateLeavesNothing ==
  \A p \in Procs :
    (/\ call[p].verb = "MoveTablesCreate"
     /\ call[p].pc = "done"
     /\ call[p].code # "nil"
     /\ "streams" \in call[p].dirty)
    => /\ topo.vschema = call[p].pre.vschema
       /\ \A i \in Shards : topo.streams[call[p].wf][i].state = "none"
       /\ \A i \in Shards : ~topo.denied["T"][i]

\* C17: after a successful standard MoveTablesCreate (routing rules not
\* suppressed, no external cluster) the nine routing keys of every table of
\* the workflow (unqualified, qualified by the source keyspace, qualified by
\* the target keyspace, each for the three tablet types) route to the source
\* keyspace, and the routing rules of every other table are the ones the
\* verb found.
C17_InitialRoutingRules ==
  \A p \in Procs :
    (/\ call[p].verb = "MoveTablesCreate"
     /\ call[p].pc = "done"
     /\ call[p].code = "nil"
     /\ kind = "standard"
     /\ ~call[p].noRules)
    => /\ \A tb \in Tables, sfx \in tabletTypeSuffixes :
            \A q \in {globalTableQualifier, "ks1", "ks2"} : topo.rules[<<q, tb, sfx>>] = "ks1"
       /\ \A k \in RuleKeys : k[2] \notin Tables => topo.rules[k] = call[p].pre.rules[k]

\* A standard MoveTablesCreate succeeded in a topology where a table outside
\* the workflow has routing rules.
C17_Witness ==
  \E p \in Procs :
    /\ call[p].verb = "MoveTablesCreate"
    /\ call[p].pc = "done"
    /\ call[p].code = "nil"
    /\ kind = "standard"
    /\ ~call[p].noRules
    /\ \E k \in RuleKeys : k[2] \notin Tables /\ call[p].pre.rules[k] # "none"
    /\ topo.rules # call[p].pre.rules

\* The levels at which routing rules exist that route the tables of the
\* workflow: table rules, shard rules, keyspace rules.
RoutingLevels(t) ==
  {lv \in {"table", "shard", "keyspace"} :
     \/ lv = "table" /\ \E k \in RuleKeys : k[2] \in Tables /\ t.rules[k] # "none"
     \/ lv = "shard" /\ \E k \in Keyspaces \X Shards : t.shardRules[k] # "none"
     \/ lv = "keyspace" /\ \E k \in Keyspaces \X tabletTypeSuffixes : t.ksRules[k] # "none"}

\* C18: after a successful MoveTablesCreate routing rules exist at one level
\* only: table rules for a standard workflow, shard rules for a partial one,
\* keyspace rules for a multi-tenant one; never rules of two levels.
C18_OneRoutingLevel ==
  \A p \in Procs :
    (/\ call[p].verb = "MoveTablesCreate"
     /\ call[p].pc = "done"
     /\ call[p].code = "nil")
    => /\ Cardinality(RoutingLevels(topo)) <= 1
       /\ kind = "standard" => RoutingLevels(topo) \subseteq {"table"}
       /\ kind = "partial" => RoutingLevels(topo) \subseteq {"shard"}
       /\ kind = "multitenant" => RoutingLevels(topo) \subseteq {"keyspace"}

C20_MutationsUnderNamedLock ==
  \A p \in Procs :
    (\/ call[p].pc \notin {"idle", "done"} /\ call[p].dirty # {}
     \/ call[p].pc = "mirrorTraffic")
    => nameLock[call[p].wf] = p

(***************************************************************************)
(* buildTrafficSwitcher over the streams of the targets.                   *)
(***************************************************************************)
\* A binlog source of a stream: its Filter is nil (no rules) or lists the
\* tables its rules match.
NilRules == <<>>
FilterRules == {NilRules, <<"t1", "t2">>, <<"t2", "t1">>, <<"t1">>}
BinlogSources ==
  [keyspace : Keyspaces, shard : {"-80", "0"}, externalCluster : {"", "ext"}, rules : FilterRules]
TargetShardNames == <<"-80", "80-", "0">>
TargetKeyspace == "ks2"

\* sort.Strings on a list of table names.
TableRank(tb) ==
  IF tb \in Tables THEN CHOOSE i \in 1..Len(TableList) : TableList[i] = tb ELSE 0

RECURSIVE sortStrings(_)
sortStrings(l) ==
  IF l = <<>> THEN <<>>
  ELSE LET least == CHOOSE i \in 1..Len(l) :
                      \A j \in 1..Len(l) :
                        TableRank(l[i]) < TableRank(l[j]) \/ (TableRank(l[i]) = TableRank(l[j]) /\ i <= j)
       IN  <<l[least]>> \o sortStrings(SubSeq(l, 1, least - 1) \o SubSeq(l, least + 1, Len(l)))

NoTrafficSwitcher ==
  [err |-> "", msg |-> "", sourceKeyspace |-> "", externalCluster |-> "", tables |-> NilRules,
   sources |-> {}, migrationType |-> ""]

BuildError(code, msg) == [NoTrafficSwitcher EXCEPT !.err = code, !.msg = msg]

\* The loop over the binlog sources of the targets, lines 2265-2325, from
\* the i-th of them in the order the map of the targets is ranged over;
\* `fail` is the call to the topology that fails, if any.
RECURSIVE buildSources(_, _, _, _, _)
buildSources(blss, i, ts, ignoreSourceKeyspace, fail) ==
  IF i > Len(blss) THEN ts
  ELSE
    LET bls == blss[i]
        first == ts.sourceKeyspace = ""
        a == IF first
               THEN [ts EXCEPT !.sourceKeyspace = bls.keyspace,
                               !.externalCluster = bls.externalCluster]
               ELSE ts
        tables == sortStrings(bls.rules)
        b == [a EXCEPT !.tables = tables]
    IN  IF first /\ bls.externalCluster # "" /\ fail = "OpenExternalVitessClusterServer"
          THEN BuildError("UNKNOWN", "external cluster")
        ELSE IF ~first /\ ts.sourceKeyspace # bls.keyspace
          THEN BuildError("FAILED_PRECONDITION", "source keyspaces are mismatched across streams")
        ELSE IF bls.rules = NilRules
          THEN BuildError("FAILED_PRECONDITION", "missing filters")
        ELSE IF a.tables # NilRules /\ a.tables # tables
          THEN BuildError("FAILED_PRECONDITION", "table lists are mismatched across streams")
        ELSE IF ignoreSourceKeyspace \/ bls.shard \in b.sources
          THEN buildSources(blss, i + 1, b, ignoreSourceKeyspace, fail)
        ELSE IF fail = "GetShard" THEN BuildError("UNKNOWN", "GetShard")
        ELSE IF fail = "PrimaryAlias"
          THEN BuildError("FAILED_PRECONDITION", "source shard currently has no primary tablet")
        ELSE buildSources(blss, i + 1, [b EXCEPT !.sources = @ \cup {bls.shard}],
                          ignoreSourceKeyspace, fail)

\* buildTrafficSwitcher, lines 2237-2368, for the targets whose streams read
\* from blss: the traffic switcher, or the error in place of it.
buildFromTargets(blss, targetKeyspace, targetShards, ignoreSourceKeyspace, fail) ==
  IF fail = "BuildTargets" THEN BuildError("UNKNOWN", "BuildTargets")
  ELSE LET ts == buildSources(blss, 1, NoTrafficSwitcher, ignoreSourceKeyspace, fail)
       IN  IF ts.err # "" THEN ts
           ELSE IF ~ignoreSourceKeyspace /\ fail = "GetVSchema"
             THEN BuildError("UNKNOWN", "GetVSchema")
           ELSE [ts EXCEPT !.err = "nil",
                           !.migrationType =
                              MigrationTypeOf(ts.sourceKeyspace, targetKeyspace,
                                              ts.externalCluster # "", ts.sources, targetShards)]

BuildFailures ==
  {"none", "BuildTargets", "OpenExternalVitessClusterServer", "GetShard", "PrimaryAlias", "GetVSchema"}

\* A call of buildTrafficSwitcher; the map of the targets is ranged over in
\* any order.
BuildTrafficSwitcher ==
  /\ build.pc = "build"
  /\ \E fail \in BuildFailures :
       \E order \in {o \in [1..Len(build.sources) -> 1..Len(build.sources)] :
                       \A i, j \in 1..Len(build.sources) : o[i] = o[j] => i = j} :
         build' = [build EXCEPT
                     !.pc = "built",
                     !.ts = buildFromTargets([i \in 1..Len(build.sources) |-> build.sources[order[i]]],
                                             TargetKeyspace,
                                             {TargetShardNames[i] : i \in 1..Len(build.sources)},
                                             build.ignoreSourceKeyspace, fail)]
  /\ UNCHANGED <<kind, topo, nameLock, ksLock, call, sem, jobs, vtbackup, reads, probe>>

\* The workflows whose traffic switcher is built: up to MaxTargets target
\* shards, the i-th of them named TargetShardNames[i], each with one stream.
InitBuild ==
  /\ WorkflowsAtRest
  /\ sem = NoSem /\ jobs = NoJobs /\ vtbackup = <<>>
  /\ \E n \in 1..MaxTargets, ignore \in BOOLEAN :
       \E blss \in [1..n -> BinlogSources] :
         build = [pc |-> "build", sources |-> blss, ignoreSourceKeyspace |-> ignore,
                  ts |-> NoTrafficSwitcher]

SpecBuild == InitBuild /\ [][BuildTrafficSwitcher]_vars

(***************************************************************************)
(* Locks at the return of a verb.                                          *)
(***************************************************************************)
\* C21: a verb that has returned holds no named lock and no keyspace lock,
\* and the error its keyspace unlock closures were given is the error (or
\* nil) the verb returned.
C21_LocksReleasedWithReturnedError ==
  \A p \in Procs :
    call[p].pc = "done"
    => /\ \A n \in WfNames : nameLock[n] # p
       /\ \A k \in Keyspaces : ksLock[k] # p
       /\ call[p].unlockErr # "" => call[p].unlockErr = call[p].code

(***************************************************************************)
(* The background jobs of optimizeCopyStateTable.                          *)
(***************************************************************************)
\* C22: with a semaphore, the goroutines that run are never more than its
\* capacity and each of them holds exactly one permit (the permits taken
\* are as many as the goroutines that run), so that a call made when no
\* permit is free has started none.
C22_JobsWithinSemaphore ==
  ~sem.nil => /\ jobs.optimize + jobs.reset <= sem.size
              /\ sem.cur = jobs.optimize + jobs.reset

\* Every permit is taken, a call was turned away and goroutines have ended
\* at either statement.
C22_Witness ==
  /\ ~sem.nil
  /\ sem.cur = sem.size
  /\ jobs.deferred > 0
  /\ jobs.ended > 1

(***************************************************************************)
(* pruneBackups.                                                           *)
(***************************************************************************)
\* C23: after pruneBackups the backups that are left are the youngest ones
\* of those listed, at least min_retention_count of them when that many
\* were listed; nothing is removed when min_retention_time is 0 or the
\* backups listed are not more than min_retention_count; and every backup
\* that was removed is at least min_retention_time old.
C23_PruneKeepsRetentionCount ==
  vtbackup # <<>> /\ vtbackup.pc = "done"
  => LET before == Len(vtbackup.listed)
         after == Len(vtbackup.backups)
         removed == before - after
     IN  /\ vtbackup.backups = SubSeq(vtbackup.listed, removed + 1, before)
         /\ before >= vtbackup.minRetentionCount => after >= vtbackup.minRetentionCount
         /\ (vtbackup.minRetentionTime = 0 \/ before <= vtbackup.minRetentionCount)
              => removed = 0
         /\ \A i \in 1..removed : vtbackup.listed[i] >= vtbackup.minRetentionTime

\* Backups were pruned down to the retention count although an older one
\* than the retention time is left.
C23_Witness ==
  /\ vtbackup # <<>> /\ vtbackup.pc = "done" /\ vtbackup.err = "nil"
  /\ Len(vtbackup.backups) < Len(vtbackup.listed)
  /\ Len(vtbackup.backups) = vtbackup.minRetentionCount
  /\ vtbackup.backups[1] >= vtbackup.minRetentionTime

(***************************************************************************)
(* The order of the steps of switchWrites.                                 *)
(***************************************************************************)
\* The steps of switchWrites from the first one that changes anything, in
\* the order the claim gives them (with the target sequences initialised
\* before the journals).
SwitchWritesOrder ==
  << "sw_stopSourceWrites", "sw_stopStreams", "sw_lockTables", "sw_gatherSourcePositions",
     "sw_waitForCatchup", "sw_migrateStreams", "sw_resetSequences", "sw_createReverse",
     "sw_initSequences", "sw_createJournals", "sw_allowTargetWrites", "sw_changeRouting",
     "sw_finalize", "sw_startReverse", "sw_freeze", "finish" >>

StepIndex(pc) ==
  IF \E i \in 1..Len(SwitchWritesOrder) : SwitchWritesOrder[i] = pc
    THEN CHOOSE i \in 1..Len(SwitchWritesOrder) : SwitchWritesOrder[i] = pc
    ELSE 0

\* What holds of the topology when switchWrites stands before a step.
StepsDoneBefore(p) ==
  LET ts == TS(p)
      at == StepIndex(call[p].pc)
  IN  /\ call[p].pc = "sw_lockTables" => ts.migrationType = "TABLES"
      /\ at >= StepIndex("sw_allowTargetWrites") /\ call[p].pc # "finish"
           => checkJournals(topo, ts) = Shards
      /\ at >= StepIndex("sw_changeRouting") /\ call[p].pc # "finish"
           => \A i \in Shards : ~topo.denied[ts.tgt][i]
      /\ at >= StepIndex("sw_initSequences") /\ at <= StepIndex("sw_createJournals")
           /\ ~call[p].jExist
           => \A i \in Shards : topo.streams[ts.reverseWorkflow][i].state = "Stopped"

\* C24: switchWrites goes through its steps in the order stop source
\* writes, stop streams, LOCK TABLES cycles (table migrations only), gather
\* positions, wait for catch-up, migrate streams, reset sequences, create
\* reverse streams, create journals, allow target writes, change routing,
\* finalise, start reverse streams, freeze: a step is followed by the next
\* one or by the return of the verb, the journals of every source shard are
\* written before target writes are allowed, and target writes are allowed
\* before the routing is changed.
C24_SwitchWritesStepOrder ==
  [][\A p \in Procs :
       LET at == StepIndex(call[p].pc)
           to == StepIndex(call'[p].pc)
       IN  /\ at > 0 /\ call'[p].pc # call[p].pc /\ call[p].pc # "finish"
             => \/ call'[p].pc = "done"
                \/ to = at + 1
                \/ /\ call[p].pc = "sw_stopStreams" /\ call'[p].pc = "sw_gatherSourcePositions"
                   /\ TS(p).migrationType # "TABLES"
           /\ to > 0 /\ at = 0 /\ call[p].pc # "sw_checkJournals"
             => call'[p].pc = "finish"
           /\ call[p].pc = "sw_checkJournals" /\ to > 0
             => call'[p].pc = IF call'[p].jExist THEN "sw_createJournals" ELSE "sw_stopSourceWrites"
           /\ StepsDoneBefore(p)']_vars

\* switchWrites stands before its last step with reverse streams running,
\* having gone through the LOCK TABLES cycles.
C24_Witness ==
  \E p \in Procs :
    /\ call[p].pc = "sw_freeze" /\ ~call[p].jExist /\ call[p].enableRev
    /\ TS(p).migrationType = "TABLES"
    /\ \A i \in Shards : topo.streams[TS(p).reverseWorkflow][i].state = "Running"

(***************************************************************************)
(* The order in which MoveTablesCreate installs its artifacts.             *)
(***************************************************************************)
StreamsStarted(t, n) == \E i \in Shards : t.streams[n][i].state = "Copying"

\* The routing rules, the denied tables and the served vschema of a
\* workflow of kind k are in place in t: the step that installs them, where
\* moveTablesCreate takes it, would change nothing.
InitialArtifactsInPlace(t, ts, k, noRoutingRules) ==
  /\ k # "migrate"
       => setupInitialRoutingRules(t, k, ts.sourceKeyspace, ts.targetKeyspace, noRoutingRules) = t
  /\ k \notin {"partial", "multitenant"} => setupInitialDeniedTables(t, ts, Shards) = t
  /\ RebuildSrvVSchema(t, Cells) = t

\* C25: MoveTablesCreate edits the vschema of an unsharded target and
\* creates the stream records before it installs anything else; of the
\* steps that follow (routing rules, denied tables on the target shards,
\* rebuild of the served vschema, start of the streams) no prefix leaves a
\* started stream without the routing rules, the denied tables and the
\* rebuilt served vschema that the workflow gets; the streams are started
\* exactly when auto_start is set and the verb succeeds, which it does not
\* when checkIfPreviousJournalExists reports a journal of a previous run.
C25_CreateInstallOrder ==
  \A p \in Procs :
    call[p].verb = "MoveTablesCreate"
    => LET f == call[p]
           ts == buildTrafficSwitcher(topo, f.wf)
       IN  /\ f.pc = "mtc_setup"
             => /\ \A i \in Shards : topo.streams[f.wf][i].state = "Stopped"
                /\ ~topo.vschema.sharded => Tables \subseteq topo.vschema.tables
                /\ topo.rules = f.pre.rules /\ topo.denied = f.pre.denied
                /\ \A upto \in 0..4, shs \in SUBSET Shards :
                     LET s == moveTablesCreateSetup(topo, ts, kind, f.noRules, f.autoStart,
                                                    upto, shs)
                     IN  (upto < 3 \/ shs = Shards) /\ StreamsStarted(s, f.wf)
                           => /\ f.autoStart /\ upto = 4
                              /\ InitialArtifactsInPlace(s, ts, kind, f.noRules)
           /\ f.pc = "done" /\ f.code = "nil"
             => /\ StreamsStarted(topo, f.wf) <=> f.autoStart
                /\ InitialArtifactsInPlace(topo, ts, kind, f.noRules)
                /\ kind # "migrate"
                     => \E last \in Shards : ~checkIfPreviousJournalExists(f.pre, ts, last)
           /\ f.pc = "done" /\ f.code # "nil" /\ ~WorkflowExists(f.pre, f.wf)
             => ~StreamsStarted(topo, f.wf)

\* A standard MoveTablesCreate with auto_start and routing rules has created
\* its streams and stands before the steps that install the rest.
C25_Witness ==
  \E p \in Procs :
    /\ call[p].verb = "MoveTablesCreate" /\ call[p].pc = "mtc_setup"
    /\ kind = "standard" /\ call[p].autoStart /\ ~call[p].noRules
    /\ StreamsStarted(moveTablesCreateSetup(topo, buildTrafficSwitcher(topo, call[p].wf), kind,
                                            FALSE, TRUE, 4, Shards), call[p].wf)

(***************************************************************************)
(* The traffic switcher that buildTrafficSwitcher returns.                 *)
(***************************************************************************)
SourceShardsOf(blss) == {blss[i].shard : i \in 1..Len(blss)}
TargetShardsOf(blss) == {TargetShardNames[i] : i \in 1..Len(blss)}
TablesOf(rules) == {rules[i] : i \in 1..Len(rules)}
IsSorted(l) == \A i, j \in 1..Len(l) : i <= j => TableRank(l[i]) <= TableRank(l[j])
MismatchMessages ==
  {"source keyspaces are mismatched across streams", "table lists are mismatched across streams"}

\* C26: buildTrafficSwitcher returns an error and no traffic switcher for
\* streams that name different source keyspaces or list different sets of
\* tables, the error of the mismatch has the code INTERNAL, and when it
\* succeeds all streams have the source keyspace of the traffic switcher
\* and its sorted list of tables.
C26_MismatchedStreamsAreInternal ==
  build.pc = "built"
  => LET ts == build.ts
         blss == build.sources
     IN  /\ (\E i, j \in 1..Len(blss) :
                \/ blss[i].keyspace # blss[j].keyspace
                \/ TablesOf(blss[i].rules) # TablesOf(blss[j].rules))
              => ts.err # "nil" /\ ts.sourceKeyspace = ""
         /\ ts.msg \in MismatchMessages => ts.err = "INTERNAL"
         /\ ts.err = "nil"
              => /\ IsSorted(ts.tables)
                 /\ \A i \in 1..Len(blss) :
                      /\ blss[i].keyspace = ts.sourceKeyspace
                      /\ TablesOf(blss[i].rules) = TablesOf(ts.tables)

\* C27 as stated: the migration type is TABLES when the source keyspace is
\* not the target keyspace, when the source is an external cluster or when
\* no source shard is a target shard, and SHARDS otherwise.
C27_TablesWhenOverlapFree ==
  build.pc = "built" /\ build.ts.err = "nil"
  => build.ts.migrationType =
       IF \/ build.ts.sourceKeyspace # TargetKeyspace
          \/ build.ts.externalCluster # ""
          \/ SourceShardsOf(build.sources) \cap TargetShardsOf(build.sources) = {}
         THEN "TABLES" ELSE "SHARDS"

\* C27: the migration type is TABLES when the source keyspace is not the
\* target keyspace, when the source is an external cluster or when a source
\* shard that was loaded is also a target shard; it is SHARDS otherwise,
\* that is within one keyspace without a shard in common or without the
\* source shards loaded.
C27_TablesWhenOverlapping ==
  build.pc = "built" /\ build.ts.err = "nil"
  => build.ts.migrationType =
       IF \/ build.ts.sourceKeyspace # TargetKeyspace
          \/ build.ts.externalCluster # ""
          \/ /\ ~build.ignoreSourceKeyspace
             /\ SourceShardsOf(build.sources) \cap TargetShardsOf(build.sources) # {}
         THEN "TABLES" ELSE "SHARDS"

\* A traffic switcher within one keyspace whose source shard is one of its
\* target shards, and so a table migration.
C27_Witness ==
  /\ build.pc = "built" /\ build.ts.err = "nil"
  /\ build.ts.sourceKeyspace = TargetKeyspace /\ build.ts.externalCluster = ""
  /\ SourceShardsOf(build.sources) \cap TargetShardsOf(build.sources) # {}
  /\ build.ts.migrationType = "TABLES"

(***************************************************************************)
(* The keyspace locks of WorkflowSwitchTraffic.                            *)
(***************************************************************************)
\* C28: a keyspace lock that switchReads or switchWrites has just taken
\* has a TTL of at least three times the timeout of the verb; switchWrites
\* holds the lock of the source keyspace when it takes the lock of the
\* target keyspace, which it takes only when that is another keyspace.
C28_KeyspaceLockTTL ==
  \A p \in Procs :
    call[p].verb = "WorkflowSwitchTraffic" /\ call[p].ttl > 0
    => LET ts == TS(p)
       IN  /\ call[p].ttl >= 3 * call[p].timeout
           /\ call[p].timeout \in AcceptedTimeouts
           /\ ksLock[ts.sourceKeyspace] = p
           /\ call[p].pc = "sw_lockTarget"
                => ts.targetKeyspace # ts.sourceKeyspace /\ ksLock[ts.targetKeyspace] # p
           /\ call[p].pc = "sw_mirror" => ksLock[ts.targetKeyspace] = p

\* C29: a step of switchReads or switchWrites that changes the topology is
\* taken with the keyspace locks of the verb still held: the lock of the
\* source keyspace and, in switchWrites, that of the target keyspace are
\* checked before the step, and after a lock was lost nothing is changed.
C29_StepsUnderKeyspaceLocks ==
  [][\A p \in Procs :
       (/\ call[p].verb = "WorkflowSwitchTraffic"
        /\ \/ call[p].pc \in {"sr_mirror", "sr_switch"}
           \/ StepIndex(call[p].pc) > 0 /\ call[p].pc # "finish"
        /\ topo' # topo)
       => /\ CheckKeyspaceLocked(p, TS(p).sourceKeyspace)
          /\ call[p].pc \notin {"sr_mirror", "sr_switch"}
               => CheckKeyspaceLocked(p, TS(p).targetKeyspace)]_vars

(***************************************************************************)
(* WorkflowSwitchTraffic in the direction BACKWARD.                        *)
(***************************************************************************)
\* A BACKWARD WorkflowSwitchTraffic that is at work.
BackwardAtWork(p) ==
  /\ call[p].verb = "WorkflowSwitchTraffic" /\ call[p].direction = "BACKWARD"
  /\ call[p].pc \notin {"idle", "done"}

HoldsNameLockOf(p, n) ==
  call[p].pc # "lockName" => nameLock[n] = p /\ \A m \in WfNames \ {n} : nameLock[m] # p

\* C30 as stated: a BACKWARD WorkflowSwitchTraffic always works on the
\* reverse workflow, in the direction FORWARD and under the named lock of
\* the reverse workflow.
C30_BackwardAlwaysOnReverseWorkflow ==
  \A p \in Procs :
    BackwardAtWork(p)
    => /\ call[p].wf = ReverseWorkflowName(WfName)
       /\ call[p].dir = "FORWARD"
       /\ HoldsNameLockOf(p, ReverseWorkflowName(WfName))

\* C30: a BACKWARD WorkflowSwitchTraffic that names the primary, or that
\* finds the writes switched, works on the reverse workflow in the
\* direction FORWARD under the named lock of the reverse workflow; one that
\* names read-only types alone while the writes are not switched works on
\* the workflow itself, in the direction BACKWARD and under its named lock,
\* and never gets to switchWrites.
C30_BackwardOnReverseUnlessReadsOnly ==
  \A p \in Procs :
    BackwardAtWork(p)
    => \/ /\ "PRIMARY" \in call[p].types \/ ~call[p].wrAlready
          /\ call[p].wf = ReverseWorkflowName(WfName)
          /\ call[p].dir = "FORWARD"
          /\ HoldsNameLockOf(p, ReverseWorkflowName(WfName))
       \/ /\ "PRIMARY" \notin call[p].types /\ call[p].wrAlready
          /\ call[p].wf = WfName
          /\ call[p].dir = "BACKWARD"
          /\ HoldsNameLockOf(p, WfName)
          /\ StepIndex(call[p].pc) = 0 \/ call[p].pc = "finish"
          /\ call[p].pc \notin {"switchWrites", "sw_lockSource", "sw_lockTarget", "sw_mirror",
                                 "sw_checkJournals"}

\* The reads of the workflow are about to be switched back while its writes
\* are not switched.
C30_Witness ==
  \E p \in Procs :
    /\ BackwardAtWork(p) /\ call[p].pc = "sr_switch"
    /\ call[p].wf = WfName /\ call[p].dir = "BACKWARD"
    /\ ~getWorkflowState(topo, WfName).WritesSwitched

(***************************************************************************)
(* switchReads cell by cell.  A workflow with table routing rules has its  *)
(* read traffic switched for some cells and tablet types, forward and      *)
(* back; reads holds the request of a round trip, the topology before it   *)
(* and the errors of its two calls.                                        *)
(***************************************************************************)
\* The cells a request can name: {} stands for every cell.
CellSets == SUBSET Cells

\* The read-only tablet types a request can name.
RoTypeSets == (SUBSET RoTypes) \ {{}}

\* DoCellsHaveRdonlyTablets with the request's cells, lines 2931-2940: the
\* tablet types that are switched.
roTabletTypesToSwitch(types, rdonlyTabletsExist) ==
  IF "REPLICA" \in types /\ "RDONLY" \notin types /\ ~rdonlyTabletsExist
    THEN types \cup {"RDONLY"} ELSE types

\* switchReads of a workflow with table routing rules, lines 2860-3009: the
\* request is checked against the state read at the start of the verb, the
\* mirror rules of the types are removed, the rules are rewritten and the
\* served vschema of the cells is rebuilt.
switchReads(t, ts, state, cells, types, direction, rdonlyTabletsExist) ==
  LET switchReplica == "REPLICA" \in types
      switchRdonly == "RDONLY" \in types
      roTabletTypes == roTabletTypesToSwitch(types, rdonlyTabletsExist)
  IN  IF ~switchReplica /\ ~switchRdonly
        THEN [err |-> "INVALID_ARGUMENT", topo |-> t]
      ELSE IF direction = "BACKWARD" /\ switchReplica /\ state.ReplicaCellsSwitched = {}
        THEN [err |-> "FAILED_PRECONDITION", topo |-> t]
      ELSE IF direction = "BACKWARD" /\ switchRdonly /\ state.RdonlyCellsSwitched = {}
        THEN [err |-> "FAILED_PRECONDITION", topo |-> t]
      ELSE [err |-> "nil",
            topo |-> switchTableReads(mirrorTableTraffic(t, roTabletTypes, 0), ts, cells,
                                      roTabletTypes, TRUE, direction)]

NoRoundTrip ==
  [pc |-> "idle", cells |-> {}, types |-> {}, rdonlyTabletsExist |-> FALSE,
   pre |-> <<>>, err1 |-> "", err2 |-> ""]

\* One call of switchReads on the workflow "wf" as WorkflowSwitchTraffic
\* makes it for a request without the primary tablet type.
SwitchReadsCall(cells, types, direction, rdonlyTabletsExist) ==
  switchReads(topo, buildTrafficSwitcher(topo, WfName), getWorkflowState(topo, WfName),
              cells, types, direction, rdonlyTabletsExist)

\* Read traffic is switched for some cells and types, in either direction,
\* outside a round trip.
SwitchSomeReads ==
  /\ reads.pc = "idle"
  /\ \E cells \in CellSets, types \in RoTypeSets, direction \in Directions,
        rdonlyTabletsExist \in BOOLEAN :
       LET r == SwitchReadsCall(cells, types, direction, rdonlyTabletsExist)
       IN  /\ r.err = "nil"
           /\ topo' = r.topo
  /\ UNCHANGED <<kind, nameLock, ksLock, call, sem, jobs, vtbackup, build, reads, probe>>

\* The first call of a round trip: FORWARD.
RoundTripForward ==
  /\ reads.pc = "idle"
  /\ \E cells \in CellSets, types \in RoTypeSets, rdonlyTabletsExist \in BOOLEAN :
       LET r == SwitchReadsCall(cells, types, "FORWARD", rdonlyTabletsExist)
       IN  /\ topo' = r.topo
           /\ reads' = [pc |-> "forward", cells |-> cells, types |-> types,
                        rdonlyTabletsExist |-> rdonlyTabletsExist,
                        pre |-> topo, err1 |-> r.err, err2 |-> ""]
  /\ UNCHANGED <<kind, nameLock, ksLock, call, sem, jobs, vtbackup, build, probe>>

\* The second call: BACKWARD, for the same cells and tablet types.
RoundTripBackward ==
  /\ reads.pc = "forward"
  /\ LET r == SwitchReadsCall(reads.cells, reads.types, "BACKWARD", reads.rdonlyTabletsExist)
     IN  /\ topo' = r.topo
         /\ reads' = [reads EXCEPT !.pc = "back", !.err2 = r.err]
  /\ UNCHANGED <<kind, nameLock, ksLock, call, sem, jobs, vtbackup, build, probe>>

\* The caller has seen the round trip.
RoundTripDone ==
  /\ reads.pc = "back"
  /\ reads' = NoRoundTrip
  /\ UNCHANGED <<kind, topo, nameLock, ksLock, call, sem, jobs, vtbackup, build, probe>>

InitReads ==
  /\ kind = "standard"
  /\ nameLock = [n \in WfNames |-> "none"]
  /\ ksLock = [k \in Keyspaces |-> "none"]
  /\ call = [p \in Procs |-> IdleFrame]
  /\ topo = InitialTopo("standard")
  /\ sem = NoSem /\ jobs = NoJobs /\ vtbackup = <<>> /\ build = <<>> /\ probe = <<>>
  /\ reads = NoRoundTrip

NextReads == SwitchSomeReads \/ RoundTripForward \/ RoundTripBackward \/ RoundTripDone

SpecReads == InitReads /\ [][NextReads]_vars

\* The partition of the cells into switched and not switched, for REPLICA
\* and for RDONLY, as getWorkflowState reports it.
CellPartition(t) ==
  LET st == getWorkflowState(t, WfName)
  IN  <<st.ReplicaCellsSwitched, st.ReplicaCellsNotSwitched,
        st.RdonlyCellsSwitched, st.RdonlyCellsNotSwitched>>

\* The cells a request stands for.
RequestedCells(cells) == IF cells = {} THEN Cells ELSE cells

\* Both calls of the round trip went through.
RoundTripMade == reads.pc = "back" /\ reads.err1 = "nil" /\ reads.err2 = "nil"

\* C31 (as stated): after SwitchReads FORWARD and SwitchReads BACKWARD for
\* the same tablet types and cells, the partition of the cells into switched
\* and not switched is, for REPLICA and for RDONLY, the one that held before
\* the first call.
C31_RoundTripRestoresPartition ==
  RoundTripMade => CellPartition(topo) = CellPartition(reads.pre)

\* Before the first call the served vschema of the requested cells was the
\* stored one, and none of the types the call switches was switched in them.
FreshCells ==
  \A c \in RequestedCells(reads.cells) :
    /\ reads.pre.srvRules[c] = reads.pre.rules
    /\ \A tt \in roTabletTypesToSwitch(reads.types, reads.rdonlyTabletsExist) :
         c \notin GetCellsWithTableReadsSwitched(reads.pre, "ks1", TableList[1], tt)

\* C31 (amended): the round trip restores the partition when, before the
\* first call, the requested cells served the stored routing rules and the
\* tablet types the call switches (RDONLY with REPLICA where the cells have
\* no rdonly tablets) were not switched in them.
C31_RoundTripRestoresFreshCells ==
  (RoundTripMade /\ FreshCells) => CellPartition(topo) = CellPartition(reads.pre)

\* A round trip for REPLICA in one cell without rdonly tablets, made while
\* the other cell has its reads switched.
C31_Witness ==
  /\ RoundTripMade /\ FreshCells
  /\ reads.cells = {"c1"} /\ reads.types = {"REPLICA"} /\ ~reads.rdonlyTabletsExist
  /\ "c2" \in GetCellsWithTableReadsSwitched(reads.pre, "ks1", TableList[1], "REPLICA")

(***************************************************************************)
(* GetCellsWithTableReadsSwitched and GetCellsWithShardReadsSwitched as    *)
(* functions of what the topology serves in each cell.  probe holds the    *)
(* arguments of one call of a function and its result.                     *)
(***************************************************************************)
CellList == <<"c1", "c2">>

\* A served vschema: its routing rules in order, each a FromTable and the
\* keyspaces of its ToTables.
RuleNames == {<<"ks1", "t1", replicaTabletSuffix>>, <<"ks1", "t0", replicaTabletSuffix>>}
ToTablesChoices == {<<"ks1">>, <<"ks2">>, <<"ks3">>, <<"ks1", "ks2">>}
SrvVSchemas == {<<>>} \cup {<<[fromTable |-> fr, toTables |-> to]>> : fr \in RuleNames, to \in ToTablesChoices}

\* Lines 313-335: the first rule named ruleName decides; the cell is switched
\* when one of its ToTables lies outside the source keyspace.
RECURSIVE ruleSwitched(_, _, _, _)
ruleSwitched(rules, i, ruleName, sourceKeyspace) ==
  IF i > Len(rules) THEN FALSE
  ELSE IF rules[i].fromTable = ruleName
    THEN \E j \in 1..Len(rules[i].toTables) : rules[i].toTables[j] # sourceKeyspace
  ELSE ruleSwitched(rules, i + 1, ruleName, sourceKeyspace)

\* The loop over the cells, lines 302-342, from the cell i on.
RECURSIVE tableReadsLoop(_, _, _, _, _, _, _)
tableReadsLoop(srv, i, sourceKeyspace, targetKeyspace, ruleName, failsAt, acc) ==
  IF i > Len(CellList) THEN acc
  ELSE IF i = failsAt THEN [cellsSwitched |-> <<>>, cellsNotSwitched |-> <<>>, err |-> "GetSrvVSchema"]
  ELSE tableReadsLoop(srv, i + 1, sourceKeyspace, targetKeyspace, ruleName, failsAt,
         IF ruleSwitched(srv[CellList[i]], 1, ruleName, sourceKeyspace)
           THEN [acc EXCEPT !.cellsSwitched = Append(@, CellList[i])]
           ELSE [acc EXCEPT !.cellsNotSwitched = Append(@, CellList[i])])

NoCells == [cellsSwitched |-> <<>>, cellsNotSwitched |-> <<>>, err |-> "nil"]

\* GetCellsWithTableReadsSwitched, lines 281-345, with its two result lists;
\* GetSrvVSchema fails at the cell failsAt (0: at none).
getCellsWithTableReadsSwitched(srv, sourceKeyspace, targetKeyspace, table, tabletType, failsAt) ==
  tableReadsLoop(srv, 1, sourceKeyspace, targetKeyspace,
                 <<sourceKeyspace, table, Suffix(tabletType)>>, failsAt, NoCells)

\* A served keyspace as GetCellsWithShardReadsSwitched reads it for a tablet
\* type: whether it has a partition of the type, whether the shard is among
\* its references, and the tablet control of the shard, if any.
SrvKeyspaces ==
  [served : BOOLEAN, referenced : BOOLEAN, controls : {"none", "others", "enabled", "disabled"}]

\* Lines 224-267 for one cell: not switched when the shard is referenced and
\* either serves queries or the partition has no tablet controls.
shardNotSwitched(srvks) ==
  LET found == srvks.served /\ srvks.referenced
      noControls == srvks.served /\ srvks.controls = "none"
      shardServedTypes == IF srvks.served /\ srvks.controls = "enabled" THEN 1 ELSE 0
  IN  found /\ (shardServedTypes > 0 \/ noControls)

RECURSIVE shardReadsLoop(_, _, _, _)
shardReadsLoop(srvks, i, failsAt, acc) ==
  IF i > Len(CellList) THEN acc
  ELSE IF i = failsAt THEN [cellsSwitched |-> <<>>, cellsNotSwitched |-> <<>>, err |-> "GetSrvKeyspace"]
  ELSE shardReadsLoop(srvks, i + 1, failsAt,
         IF shardNotSwitched(srvks[CellList[i]])
           THEN [acc EXCEPT !.cellsNotSwitched = Append(@, CellList[i])]
           ELSE [acc EXCEPT !.cellsSwitched = Append(@, CellList[i])])

\* GetCellsWithShardReadsSwitched, lines 206-271.
getCellsWithShardReadsSwitched(srvks, failsAt) == shardReadsLoop(srvks, 1, failsAt, NoCells)

\* A call of GetCellsWithTableReadsSwitched for ks1.t1 and REPLICA.
GetTableReadsSwitched ==
  /\ probe.pc = "call" /\ probe.fn = "table"
  /\ \E failsAt \in 0..Len(CellList) :
       probe' = [probe EXCEPT !.pc = "returned",
                   !.result = getCellsWithTableReadsSwitched(probe.srv, "ks1", probe.targetKeyspace,
                                                             "t1", "REPLICA", failsAt)]
  /\ UNCHANGED <<kind, topo, nameLock, ksLock, call, sem, jobs, vtbackup, build, reads>>

\* A call of GetCellsWithShardReadsSwitched for a shard and a tablet type.
GetShardReadsSwitched ==
  /\ probe.pc = "call" /\ probe.fn = "shard"
  /\ \E failsAt \in 0..Len(CellList) :
       probe' = [probe EXCEPT !.pc = "returned",
                   !.result = getCellsWithShardReadsSwitched(probe.srv, failsAt)]
  /\ UNCHANGED <<kind, topo, nameLock, ksLock, call, sem, jobs, vtbackup, build, reads>>

InitCells ==
  /\ kind = "standard"
  /\ nameLock = [n \in WfNames |-> "none"]
  /\ ksLock = [k \in Keyspaces |-> "none"]
  /\ call = [p \in Procs |-> IdleFrame]
  /\ topo = InitialTopo("standard")
  /\ sem = NoSem /\ jobs = NoJobs /\ vtbackup = <<>> /\ build = <<>> /\ reads = <<>>
  /\ \/ \E srv \in [Cells -> SrvVSchemas], targetKeyspace \in {"ks2", "ks3"} :
          probe = [pc |-> "call", fn |-> "table", srv |-> srv,
                   targetKeyspace |-> targetKeyspace, result |-> NoCells]
     \/ \E srvks \in [Cells -> SrvKeyspaces] :
          probe = [pc |-> "call", fn |-> "shard", srv |-> srvks,
                   targetKeyspace |-> "", result |-> NoCells]

NextCells == GetTableReadsSwitched \/ GetShardReadsSwitched

SpecCells == InitCells /\ [][NextCells]_vars

Elems(l) == {l[i] : i \in 1..Len(l)}

\* The two lists of a result hold every cell exactly once.
PartitionsCells(r) ==
  /\ Elems(r.cellsSwitched) \cup Elems(r.cellsNotSwitched) = Cells
  /\ Len(r.cellsSwitched) + Len(r.cellsNotSwitched) = Cardinality(Cells)

\* The keyspaces that the rule of ks1.t1@replica in a served vschema resolves
\* to; none when the rule is missing.
ResolvesTo(rules) ==
  IF \E i \in 1..Len(rules) : rules[i].fromTable = <<"ks1", "t1", replicaTabletSuffix>>
    THEN Elems(rules[CHOOSE i \in 1..Len(rules) :
                       rules[i].fromTable = <<"ks1", "t1", replicaTabletSuffix>>].toTables)
    ELSE {}

\* Every call that returns without an error partitions the cells.
CellsArePartitioned ==
  (probe.pc = "returned" /\ probe.result.err = "nil") => PartitionsCells(probe.result)

\* C32: both functions return every cell in exactly one of their two lists,
\* and GetCellsWithTableReadsSwitched lists a cell as switched if and only if
\* the routing rule of the table in the cell's served vschema resolves to the
\* target keyspace.
C32_CellsPartitionedByTargetRule ==
  (probe.pc = "returned" /\ probe.result.err = "nil") =>
    /\ PartitionsCells(probe.result)
    /\ probe.fn = "table" =>
         \A c \in Cells :
           c \in Elems(probe.result.cellsSwitched) <=> probe.targetKeyspace \in ResolvesTo(probe.srv[c])

\* What the code decides by: a cell is switched if and only if the rule
\* resolves to a keyspace other than the source keyspace.
SwitchedIffRuleLeavesSource ==
  (probe.pc = "returned" /\ probe.result.err = "nil" /\ probe.fn = "table") =>
    \A c \in Cells :
      c \in Elems(probe.result.cellsSwitched) <=> ResolvesTo(probe.srv[c]) \ {"ks1"} # {}

(***************************************************************************)
(* canSwitch over the shards of both sides.  probe holds the workflow's    *)
(* lag, the outcome of the tablet refresh of each shard, the force flag    *)
(* and the reason returned.                                                *)
(***************************************************************************)
\* A call of canSwitch on the workflow "wf".
CanSwitch ==
  /\ probe.pc = "call" /\ probe.fn = "canSwitch"
  /\ \E first \in FirstStreams(topo, WfName) :
       probe' = [probe EXCEPT !.pc = "returned",
                   !.result = canSwitchShards(topo, buildTrafficSwitcher(topo, WfName), probe.lag,
                                              DefaultTimeout \div 1000, first,
                                              probe.outcomes, probe.force)]
  /\ UNCHANGED <<kind, topo, nameLock, ksLock, call, sem, jobs, vtbackup, build, reads>>

\* The streams of the workflow are copying or running; the lag is below or
\* above the allowed one; every shard of either side has its own outcome.
InitGate ==
  /\ kind = "standard"
  /\ nameLock = [n \in WfNames |-> "none"]
  /\ ksLock = [k \in Keyspaces |-> "none"]
  /\ call = [p \in Procs |-> IdleFrame]
  /\ \E copied \in BOOLEAN :
       topo = IF copied
                THEN [InitialTopo("standard") EXCEPT !.streams[WfName] =
                        [i \in Shards |-> [@[i] EXCEPT !.state = "Running"]]]
                ELSE InitialTopo("standard")
  /\ sem = NoSem /\ jobs = NoJobs /\ vtbackup = <<>> /\ build = <<>> /\ reads = <<>>
  /\ \E outcomes \in [Sides \X Shards -> RefreshOutcomes], force \in BOOLEAN, lag \in {1, MaxLag} :
       probe = [pc |-> "call", fn |-> "canSwitch", lag |-> lag, outcomes |-> outcomes,
                force |-> force, result |-> ""]

SpecGate == InitGate /\ [][CanSwitch]_vars

\* The refresh of the tablets of some shard failed, for some or for all.
RefreshFailed == \E sh \in DOMAIN probe.outcomes : probe.outcomes[sh].err \/ probe.outcomes[sh].partial

\* canSwitch got as far as the tablet refresh.
ReachedRefresh ==
  /\ probe.lag <= DefaultTimeout \div 1000
  /\ \A i \in Shards : StreamReason(topo.streams[WfName][i]) = ""

\* C33: with force a failed tablet refresh on a source or target shard,
\* partial or not, never gives the 'could not refresh all of the tablets'
\* reason; without force any such failure gives it.
C33_ForceOverridesRefreshFailures ==
  (probe.pc = "returned" /\ probe.fn = "canSwitch" /\ RefreshFailed /\ ReachedRefresh) =>
    (probe.result = cannotSwitchFailedTabletRefresh <=> ~probe.force)

\* What the code does: force overrides the partial refreshes only, so the
\* reason is given exactly when some shard's refresh returned an error
\* without being partial, or a refresh failed without force.
RefreshBlocksAsCoded ==
  (probe.pc = "returned" /\ probe.fn = "canSwitch" /\ ReachedRefresh) =>
    (probe.result = cannotSwitchFailedTabletRefresh <=>
       \/ RefreshFailed /\ ~probe.force
       \/ \E sh \in DOMAIN probe.outcomes : probe.outcomes[sh].err /\ ~probe.outcomes[sh].partial)

(***************************************************************************)
(* validateShardsHaveVReplicationPermissions, lines 3626-3664.  The loop   *)
(* starts one goroutine of an errgroup per shard; the group keeps the      *)
(* first error returned and cancels the context of the others.  probe      *)
(* holds what each shard has to say, the position of the loop, the state   *)
(* of the goroutines and the group's error.                                *)
(***************************************************************************)
\* What a shard has to say: it has no primary, its primary is not found in
\* the topology, the RPC fails, is not implemented by the tablet, or answers
\* with ok or not ok.
ShardAnswers == {"noPrimary", "getTabletErr", "rpcErr", "unimplemented", "notOk", "ok"}

\* A variant of validateShardError that takes a tablet without the RPC for
\* a failure.
validateShardErrorStrict(answer) ==
  CASE answer = "getTabletErr" -> "NOT_FOUND"
    [] answer = "rpcErr" -> "UNAVAILABLE"
    [] answer = "unimplemented" -> "UNIMPLEMENTED"
    [] answer = "notOk" -> "FAILED_PRECONDITION"
    [] OTHER -> "nil"

\* Lines 3634-3658: the error the goroutine of a shard returns.
validateShardError(answer) ==
  CASE answer = "getTabletErr" -> "NOT_FOUND"
    [] answer = "rpcErr" -> "UNAVAILABLE"
    [] answer = "unimplemented" -> "nil"
    [] answer = "notOk" -> "FAILED_PRECONDITION"
    [] OTHER -> "nil"

\* Lines 3628-3659: the loop is at shard i; without a primary the function
\* returns at once, otherwise the goroutine of the shard is started.
ValidateLoop ==
  /\ probe.fn = "validate" /\ probe.pc = "loop"
  /\ probe' =
       IF probe.i > Len(probe.shards) THEN [probe EXCEPT !.pc = "wait"]
       ELSE IF probe.shards[probe.i] = "noPrimary"
         THEN [probe EXCEPT !.pc = "returned", !.result = "FAILED_PRECONDITION"]
       ELSE [probe EXCEPT !.i = @ + 1, !.g[probe.i] = "running"]
  /\ UNCHANGED <<kind, topo, nameLock, ksLock, call, sem, jobs, vtbackup, build, reads>>

\* The goroutine of shard k returns: with its own error, or, once the
\* context of the group is cancelled, with the error of the cancelled call.
\* The group keeps the first error and cancels the context.
ValidateShard(k) ==
  /\ probe.fn = "validate" /\ probe.g[k] = "running"
  /\ \E err \in {validateShardError(probe.shards[k])} \cup
                (IF probe.cancelled THEN {"CANCELED"} ELSE {}) :
       probe' = [probe EXCEPT !.g[k] = "returned",
                   !.first = IF @ = "nil" THEN err ELSE @,
                   !.cancelled = @ \/ err # "nil"]
  /\ UNCHANGED <<kind, topo, nameLock, ksLock, call, sem, jobs, vtbackup, build, reads>>

\* Lines 3660-3663: Wait returns when every goroutine has, with the first
\* error.
ValidateWait ==
  /\ probe.fn = "validate" /\ probe.pc = "wait"
  /\ \A k \in 1..Len(probe.shards) : probe.g[k] # "running"
  /\ probe' = [probe EXCEPT !.pc = "returned", !.result = probe.first]
  /\ UNCHANGED <<kind, topo, nameLock, ksLock, call, sem, jobs, vtbackup, build, reads>>

InitPerms ==
  /\ kind = "standard"
  /\ nameLock = [n \in WfNames |-> "none"]
  /\ ksLock = [k \in Keyspaces |-> "none"]
  /\ call = [p \in Procs |-> IdleFrame]
  /\ topo = InitialTopo("standard")
  /\ sem = NoSem /\ jobs = NoJobs /\ vtbackup = <<>> /\ build = <<>> /\ reads = <<>>
  /\ \E shards \in [Shards -> ShardAnswers] :
       probe = [pc |-> "loop", fn |-> "validate", shards |-> shards, i |-> 1,
                g |-> [k \in Shards |-> "none"], cancelled |-> FALSE,
                first |-> "nil", result |-> ""]

NextPerms == ValidateLoop \/ (\E k \in Shards : ValidateShard(k)) \/ ValidateWait

SpecPerms == InitPerms /\ [][NextPerms]_vars

ValidateReturned == probe.fn = "validate" /\ probe.pc = "returned"
AnswersOf(answers) == {k \in Shards : probe.shards[k] \in answers}

\* C34 (as stated): an Unimplemented answer counts as success for its
\* shard; the function fails with FAILED_PRECONDITION if a shard has no
\* primary or a primary answers not ok; it succeeds only if every shard
\* validated ok or answered Unimplemented.
C34_PermissionsVerdict ==
  ValidateReturned =>
    /\ AnswersOf({"ok", "unimplemented"}) = Shards => probe.result = "nil"
    /\ AnswersOf({"noPrimary", "notOk"}) # {} => probe.result = "FAILED_PRECONDITION"
    /\ probe.result = "nil" => AnswersOf({"ok", "unimplemented"}) = Shards

\* C34 (amended): as above, but a primary that answers not ok makes the
\* function fail with the error of the goroutine that returned first: that
\* is FAILED_PRECONDITION when no other shard's GetTablet or RPC fails.
C34_PermissionsVerdictFirstError ==
  ValidateReturned =>
    /\ AnswersOf({"ok", "unimplemented"}) = Shards => probe.result = "nil"
    /\ AnswersOf({"noPrimary"}) # {} => probe.result = "FAILED_PRECONDITION"
    /\ AnswersOf({"notOk"}) # {} =>
         /\ probe.result # "nil"
         /\ AnswersOf({"getTabletErr", "rpcErr"}) = {} => probe.result = "FAILED_PRECONDITION"
    /\ probe.result = "nil" => AnswersOf({"ok", "unimplemented"}) = Shards

\* The function has waited for its goroutines and succeeded with a shard
\* whose primary does not implement the RPC.
C34_Witness ==
  /\ ValidateReturned /\ probe.result = "nil"
  /\ AnswersOf({"unimplemented"}) # {} /\ AnswersOf({"ok"}) # {}
  /\ \A k \in Shards : probe.g[k] = "returned"

(***************************************************************************)
(* Two callers.  One runs WorkflowDelete or MoveTablesComplete, the other  *)
(* WorkflowSwitchTraffic, on the same standard MoveTables workflow whose   *)
(* streams are running; each makes one call and their steps interleave     *)
(* freely.                                                                 *)
(***************************************************************************)
Callers == {"c1", "c2"}

\* The workflow with every stream past its copy phase.
RunningTopo(k) ==
  [InitialTopo(k) EXCEPT !.streams[WfName] = [i \in Shards |-> [@[i] EXCEPT !.state = "Running"]]]

InitRace ==
  /\ kind = "standard"
  /\ nameLock = [n \in WfNames |-> "none"]
  /\ ksLock = [k \in Keyspaces |-> "none"]
  /\ call = [p \in Callers |-> IdleFrame]
  /\ topo = RunningTopo("standard")
  /\ sem = NoSem /\ jobs = NoJobs /\ vtbackup = <<>> /\ build = <<>> /\ reads = <<>>
  /\ probe = <<>>

NextRace ==
  \/ WorkflowDelete("c1")
  \/ DeleteLockName("c1")
  \/ DeleteCleanup("c1")
  \/ DeleteStreams("c1")
  \/ MoveTablesComplete("c1")
  \/ CompleteLockName("c1")
  \/ CompleteCleanup("c1")
  \/ WorkflowSwitchTraffic("c2")
  \/ SwitchTrafficStep("c2")

SpecRace == InitRace /\ [][NextRace]_vars

\* A step in which the WorkflowDelete of caller p, under its workflow lock,
\* changes the topology; likewise for MoveTablesComplete.
DeleteMutates(p) ==
  /\ call[p].verb = "WorkflowDelete" /\ call[p].pc \in {"del_cleanup", "del_streams"}
  /\ nameLock[call[p].wf] = p
  /\ call'[p] # call[p] /\ topo' # topo

CompleteMutates(p) ==
  /\ call[p].verb = "MoveTablesComplete" /\ call[p].pc = "cmp_cleanup"
  /\ nameLock[call[p].wf] = p
  /\ call'[p] # call[p] /\ topo' # topo

\* C35: whatever the interleaving with WorkflowSwitchTraffic, WorkflowDelete
\* removes streams and artifacts only while, under its workflow lock, the
\* writes of the workflow are not switched, and MoveTablesComplete only
\* while all traffic is switched.
C35_CleanupDecidedUnderLock ==
  [][\A p \in Callers :
       /\ DeleteMutates(p) => ~getWorkflowState(topo, call[p].wf).WritesSwitched
       /\ CompleteMutates(p) => FullySwitched(getWorkflowState(topo, call[p].wf))]_vars

(***************************************************************************)
(* The journal of an earlier run and the start of the streams.             *)
(***************************************************************************)
\* A source shard of the workflow holds a journal of its migration id.
PreviousJournalExists(t, n) ==
  LET ts == buildTrafficSwitcher(t, n)
  IN  \E i \in Shards : HasJournal(t, ts.src, i, ts.id)

\* C36: a MoveTablesCreate (of a workflow whose source is not an external
\* cluster) that has returned has not started the streams if a source shard
\* holds a journal of the migration id, and it has reported such a journal
\* only if one exists.
C36_NoStartOverPreviousJournal ==
  \A p \in Procs :
    (call[p].verb = "MoveTablesCreate" /\ call[p].pc = "done" /\ kind # "migrate") =>
      /\ PreviousJournalExists(topo, WfName) => ~StreamsStarted(topo, WfName)
      /\ call[p].step = "checkIfPreviousJournalExists" => PreviousJournalExists(topo, WfName)

(***************************************************************************)
(* Primary writes of a table migration: the denied tables of both sides.   *)
(***************************************************************************)
\* The shards whose primary accepts writes to the workflow's tables.
WritableShards(t, side) == {i \in Shards : ~t.denied[side][i]}

\* Some shard of each side accepts primary writes to the workflow's tables.
WritableOnBothSides(t) ==
  WritableShards(t, "S") # {} /\ WritableShards(t, "T") # {}

\* The caller is inside switchWrites or has returned from it.
InOrAfterSwitchWrites(p) ==
  /\ call[p].verb \in {"WorkflowSwitchTraffic", "switchWrites"}
  /\ "PRIMARY" \in call[p].types
  /\ call[p].pc = "done" \/ call[p].pc = "switchWrites" \/ StepIndex(call[p].pc) > 0

\* C37: during and after a run of switchWrites of a table migration, no
\* state permits primary writes to the workflow's tables on the source and
\* on the target.
C37_NeverWritableOnBothSides ==
  \A p \in Procs :
    (kind \in {"standard", "partial", "multitenant"} /\ InOrAfterSwitchWrites(p)) =>
      ~WritableOnBothSides(topo)

\* C37, restated: the same of a standard MoveTables workflow, the one kind
\* whose creation puts denied tables on the target shards.
C37_StandardNeverWritableOnBothSides ==
  \A p \in Procs :
    (kind = "standard" /\ InOrAfterSwitchWrites(p)) => ~WritableOnBothSides(topo)

\* A switchWrites of a standard workflow has returned with every target
\* shard writable.
C37_Witness ==
  \E p \in Procs :
    /\ kind = "standard" /\ InOrAfterSwitchWrites(p) /\ call[p].pc = "done"
    /\ WritableShards(topo, "T") = Shards
    /\ WritableShards(topo, "S") = {}

(***************************************************************************)
(* A mirror request and a traffic switch of two callers on one workflow.   *)
(***************************************************************************)
NextMirror ==
  \/ WorkflowMirrorTraffic("c1")
  \/ MirrorTraffic("c1")
  \/ WorkflowSwitchTraffic("c2")
  \/ SwitchTrafficStep("c2")

SpecMirror == InitRace /\ [][NextMirror]_vars

\* The tablet types of which the state reports switched traffic.
SwitchedTabletTypes(state) == cannotSwitchTabletTypes(TabletTypes, state)

\* C38: whatever the interleaving of WorkflowMirrorTraffic with
\* WorkflowSwitchTraffic, no mirror rule is stored for a tablet type whose
\* traffic is switched to the target.
C38_NoMirrorRuleForSwitchedType ==
  \A tt \in SwitchedTabletTypes(getWorkflowState(topo, WfName)) :
    topo.mirror[tt] = NoMirrorRule

(***************************************************************************)
(* The order of the keyspace locks of two verbs, one on the workflow and   *)
(* one on its reverse twin.                                                *)
(***************************************************************************)
\* The topology after a WorkflowSwitchTraffic of all tablet types with
\* reverse replication has gone through on a standard MoveTables workflow.
SwitchedTopo ==
  LET t0 == RunningTopo("standard")
      t1 == switchTableReads(mirrorTableTraffic(t0, RoTypes, 0), buildTrafficSwitcher(t0, WfName), Cells, RoTypes,
                             FALSE, "FORWARD")
      t2 == stopSourceWrites(mirrorTableTraffic(t1, {"PRIMARY"}, 0), buildTrafficSwitcher(t1, WfName), Shards)
      t3 == createReverseVReplication(t2, buildTrafficSwitcher(t2, WfName))
      t4 == createJournals(t3, buildTrafficSwitcher(t3, WfName), {}, Shards)
      t5 == allowTargetWrites(t4, buildTrafficSwitcher(t4, WfName), Shards)
      t6 == changeRouting(t5, buildTrafficSwitcher(t5, WfName))
      t7 == startReverseVReplication(t6, buildTrafficSwitcher(t6, WfName))
  IN  freezeTargetVReplication(t7, buildTrafficSwitcher(t7, WfName), Shards)

\* Lines 1441-1458 of MoveTablesComplete, up to the call of dropSources.
CompleteChecked(p) ==
  /\ call[p].pc = "cmp_cleanup"
  /\ call[p].start.WorkflowType # "Migrate"
  /\ IF ~FullySwitched(call[p].start)
       THEN Ret(p, topo, call[p], ErrWorkflowCompleteNotFullySwitched, FALSE)
       ELSE Go(p, topo, [call[p] EXCEPT !.pc = "ds_lockSource"])

\* lockKeyspace in dropSources: the lock is taken, or the call gives up.
DropSourcesLock(p, here, keyspace, next) ==
  /\ call[p].pc = here
  /\ IF ksLock[keyspace] = "none"
       THEN /\ ksLock' = [ksLock EXCEPT ![keyspace] = p]
            /\ call' = [call EXCEPT ![p].pc = next]
            /\ UNCHANGED <<fixed, topo, nameLock>>
       ELSE Ret(p, topo, call[p], "UNKNOWN", FALSE)

\* Lines 2415-2419.
DropSourcesLockSource(p) ==
  DropSourcesLock(p, "ds_lockSource", TS(p).sourceKeyspace,
                  IF TS(p).targetKeyspace # TS(p).sourceKeyspace THEN "ds_lockTarget" ELSE "ds_drop")

\* Lines 2420-2426.
DropSourcesLockTarget(p) ==
  DropSourcesLock(p, "ds_lockTarget", TS(p).targetKeyspace, "ds_drop")

\* Lines 2429-2465: dropSources under its keyspace locks.
DropSourcesRun(p) ==
  /\ call[p].pc = "ds_drop"
  /\ \E completed \in BOOLEAN :
       LET f == call[p]
           ts == TS(p)
       IN  IF ~completed
             THEN Ret(p, topo, [f EXCEPT !.unlockErr = "nil"], "UNKNOWN", FALSE)
             ELSE \/ Ret(p, dropSources(topo, ts, f.keepData, f.keepRules, 3),
                         [f EXCEPT !.unlockErr = "nil"], "nil", TRUE)
                  \/ \E upto \in FailPoints :
                       Ret(p, dropSources(topo, ts, f.keepData, f.keepRules, upto),
                           [f EXCEPT !.step = "dropSources", !.unlockErr = "nil"],
                           "UNKNOWN", FALSE)

InitLocks ==
  /\ kind = "standard"
  /\ nameLock = [n \in WfNames |-> "none"]
  /\ ksLock = [k \in Keyspaces |-> "none"]
  /\ call = [p \in Callers |-> IdleFrame]
  /\ topo = SwitchedTopo
  /\ sem = NoSem /\ jobs = NoJobs /\ vtbackup = <<>> /\ build = <<>> /\ reads = <<>>
  /\ probe = <<>>

NextLocks ==
  \/ MoveTablesComplete("c1")
  \/ CompleteLockName("c1")
  \/ CompleteChecked("c1")
  \/ DropSourcesLockSource("c1")
  \/ DropSourcesLockTarget("c1")
  \/ DropSourcesRun("c1")
  \/ WorkflowSwitchTraffic("c2")
  \/ SwitchTrafficStep("c2")

SpecLocks == InitLocks /\ [][NextLocks]_vars

\* The keyspace whose lock the caller is asking for.
RequestedKeyspaces(p) ==
  CASE call[p].pc \in {"sw_lockSource", "ds_lockSource"} -> {TS(p).sourceKeyspace}
    [] call[p].pc \in {"sw_lockTarget", "ds_lockTarget"} -> {TS(p).targetKeyspace}
    [] OTHER -> {}

\* p asks for a keyspace lock that q holds.
WaitsFor(p, q) == \E k \in RequestedKeyspaces(p) : ksLock[k] = q

\* C39: no two callers each hold a keyspace lock and ask for the one the
\* other holds.
C39_NoLockOrderInversion ==
  \A p \in Callers : \A q \in Callers \ {p} : ~(WaitsFor(p, q) /\ WaitsFor(q, p))

(***************************************************************************)
(* WorkflowAddTables.  probe holds the request (tables), the workflow on   *)
(* the target shards (its type, whether it has streams, the tables of the  *)
(* filter rules, now and when the call began, and the state of the stream  *)
(* of each shard) and the place of the call.                               *)
(***************************************************************************)
AddTableNames == {"t1", "t2"}
AddTablesTypes == {"MoveTables", "Materialize", "Reshard"}

AddTablesUnchanged ==
  UNCHANGED <<kind, topo, call, sem, jobs, vtbackup, build, reads>>

\* The deferred unlocks of lines 840 and 847.
AddTablesUnlock ==
  /\ nameLock' = [n \in WfNames |-> "none"]
  /\ ksLock' = [k \in Keyspaces |-> "none"]

AddTablesReturn(f, at, code) ==
  /\ probe' = [f EXCEPT !.pc = "returned", !.failedAt = at, !.result = code]
  /\ AddTablesUnlock
  /\ AddTablesUnchanged

AddTablesGo(f, pc) ==
  /\ probe' = [f EXCEPT !.pc = pc]
  /\ UNCHANGED <<nameLock, ksLock>>
  /\ AddTablesUnchanged

\* Lines 1003-1009 for the streams of one shard: a requested table has a
\* filter rule already.
ruleAlreadyExists(rules, tableSet) == rules \cap tableSet # {}

\* Lines 965-1013: the error of validateAndGetStreamsAndSourceKeyspace when
\* the reads of the shards in readFailed fail.
validateAndGetStreamsAndSourceKeyspace(f, readFailed) ==
  IF readFailed # {} THEN "UNKNOWN"
  ELSE IF f.streams /\ \E i \in Shards : ruleAlreadyExists(f.rules[i], f.tables)
    THEN "FAILED_PRECONDITION"
  ELSE "nil"

\* Lines 826-847: the request is checked and the workflow and the target
\* keyspace are locked.
AddTablesEnter ==
  /\ probe.fn = "addTables" /\ probe.pc = "start"
  /\ IF probe.tables = {}
       THEN AddTablesReturn(probe, "request", "FAILED_PRECONDITION")
       ELSE \/ AddTablesReturn(probe, "GetServingShards", "UNKNOWN")
            \/ AddTablesReturn(probe, "lock", "UNKNOWN")
            \/ /\ probe' = [probe EXCEPT !.pc = "validate"]
               /\ nameLock' = [nameLock EXCEPT ![WfName] = "p1"]
               /\ ksLock' = [ksLock EXCEPT ![KsName("T")] = "p1"]
               /\ AddTablesUnchanged

\* Lines 849-861.
AddTablesValidate ==
  /\ probe.fn = "addTables" /\ probe.pc = "validate"
  /\ \E readFailed \in SUBSET Shards :
       LET err == validateAndGetStreamsAndSourceKeyspace(probe, readFailed)
       IN  IF err # "nil" THEN AddTablesReturn(probe, "validate", err)
           ELSE IF ~probe.streams THEN AddTablesReturn(probe, "sourceKeyspace", "INTERNAL")
           ELSE IF probe.workflowType \notin {"Materialize", "MoveTables"}
             THEN AddTablesReturn(probe, "workflowType", "FAILED_PRECONDITION")
           ELSE AddTablesGo(probe, "stop")

\* Lines 863-879: the streams are stopped on every target shard; the call
\* to each shard goes through or fails.
AddTablesStop ==
  /\ probe.fn = "addTables" /\ probe.pc = "stop"
  /\ \E done \in SUBSET Shards :
       LET f == [probe EXCEPT !.stopSent = TRUE,
                   !.state = [i \in Shards |-> IF i \in done THEN "Stopped" ELSE @[i]]]
       IN  IF done = Shards THEN AddTablesGo(f, "buildMaterializer")
           ELSE AddTablesReturn(f, "stop", "UNKNOWN")

\* Lines 915-917.
AddTablesBuildMaterializer ==
  /\ probe.fn = "addTables" /\ probe.pc = "buildMaterializer"
  /\ \/ AddTablesGo(probe, "deploySchema")
     \/ AddTablesReturn(probe, "buildMaterializer", "UNKNOWN")

\* Lines 918-925: when the schema cannot be deployed the streams are
\* started again, on the shards the call to which goes through.
AddTablesDeploySchema ==
  /\ probe.fn = "addTables" /\ probe.pc = "deploySchema"
  /\ \/ AddTablesGo(probe, "insertCopyState")
     \/ \E started \in SUBSET Shards :
          AddTablesReturn(
            [probe EXCEPT !.state = [i \in Shards |-> IF i \in started THEN "Running" ELSE @[i]]],
            IF started = Shards THEN "deploySchema" ELSE "startStreams", "UNKNOWN")

\* Lines 927-929.
AddTablesInsertCopyState ==
  /\ probe.fn = "addTables" /\ probe.pc = "insertCopyState"
  /\ \/ AddTablesGo(probe, "update")
     \/ AddTablesReturn(probe, "insertCopyState", "UNKNOWN")

\* Lines 933-960: each target shard gets the rules of the new tables and
\* its stream is set running; the call to each shard goes through or fails.
AddTablesUpdate ==
  /\ probe.fn = "addTables" /\ probe.pc = "update"
  /\ \E done \in SUBSET Shards :
       LET f == [probe EXCEPT
                   !.state = [i \in Shards |-> IF i \in done THEN "Running" ELSE @[i]],
                   !.rules = [i \in Shards |-> IF i \in done THEN @[i] \cup probe.tables ELSE @[i]]]
       IN  IF done = Shards THEN AddTablesReturn(f, "", "nil")
           ELSE AddTablesReturn(f, "update", "UNKNOWN")

InitAddTables ==
  /\ kind = "standard"
  /\ nameLock = [n \in WfNames |-> "none"]
  /\ ksLock = [k \in Keyspaces |-> "none"]
  /\ call = [p \in Procs |-> IdleFrame]
  /\ topo = InitialTopo("standard")
  /\ sem = NoSem /\ jobs = NoJobs /\ vtbackup = <<>> /\ build = <<>> /\ reads = <<>>
  /\ \E tables \in SUBSET AddTableNames, workflowType \in AddTablesTypes,
        streams \in BOOLEAN, rules \in [Shards -> SUBSET AddTableNames] :
       /\ ~streams => rules = [i \in Shards |-> {}]
       /\ probe = [fn |-> "addTables", pc |-> "start", tables |-> tables,
                   workflowType |-> workflowType, streams |-> streams, rules |-> rules,
                   rulesAtEntry |-> rules,
                   state |-> [i \in Shards |-> IF streams THEN "Running" ELSE "none"],
                   stopSent |-> FALSE, failedAt |-> "", result |-> ""]

NextAddTables ==
  \/ AddTablesEnter
  \/ AddTablesValidate
  \/ AddTablesStop
  \/ AddTablesBuildMaterializer
  \/ AddTablesDeploySchema
  \/ AddTablesInsertCopyState
  \/ AddTablesUpdate

SpecAddTables == InitAddTables /\ [][NextAddTables]_vars

AddTablesReturned == probe.fn = "addTables" /\ probe.pc = "returned"
StreamsRunning == \A i \in Shards : probe.state[i] = "Running"

\* C40: a request that names a table with a filter rule in a stream of the
\* workflow, or a workflow that is neither MoveTables nor Materialize, is
\* rejected before any stream is stopped; and a call that fails while
\* building the materializer, deploying the schema, inserting the copy
\* state or updating the rules of a shard returns with the streams running.
C40_AddTablesRejectsOrRestarts ==
  AddTablesReturned =>
    /\ (probe.streams /\ (\/ \E i \in Shards :
                               ruleAlreadyExists(probe.rulesAtEntry[i], probe.tables)
                          \/ probe.workflowType \notin {"MoveTables", "Materialize"}))
         => probe.result # "nil" /\ ~probe.stopSent
    /\ probe.failedAt \in {"buildMaterializer", "deploySchema", "startStreams",
                           "insertCopyState", "update"}
         => StreamsRunning

====
